---- MODULE Spec2Model ----
(***************************************************************************)
(* Model of the inbox-to-card pipeline of transform_inbox_to_csv.py:       *)
(* normalisation, word- and sentence-level deduplication, enrichment with  *)
(* per-item failures, CSV persistence with format detection, and the       *)
(* AnkiConnect sync with its single auto-launch.                           *)
(*                                                                         *)
(* A Python str is a sequence of one-character strings.  An HTML entity    *)
(* is one symbol of that sequence ("&amp;", "&lt;", "&gt;", "&nbsp;"),     *)
(* which html.unescape turns into the character it names.                  *)
(***************************************************************************)
EXTENDS Integers, Sequences, FiniteSets, TLC

\* ------------------------------------------------------------ characters

\* U+00A0, a whitespace character for str.split, str.strip and \s.
NBSP == "nbsp"

IsSpace(c) == c \in {" ", "\t", "\n", "\r", NBSP}

UpperCase == <<"A","B","C","D","E","F","G","H","I","J","K","L","M",
               "N","O","P","Q","R","S","T","U","V","W","X","Y","Z">>
LowerCase == <<"a","b","c","d","e","f","g","h","i","j","k","l","m",
               "n","o","p","q","r","s","t","u","v","w","x","y","z">>

LowerChar(c) ==
  IF \E i \in DOMAIN UpperCase : UpperCase[i] = c
  THEN LowerCase[CHOOSE i \in DOMAIN UpperCase : UpperCase[i] = c]
  ELSE c

\* str.lower()
Lower(s) == [i \in DOMAIN s |-> LowerChar(s[i])]

\* ------------------------------------------------------------ str helpers

RECURSIVE LStrip(_)
LStrip(s) == IF s # <<>> /\ IsSpace(Head(s)) THEN LStrip(Tail(s)) ELSE s

RECURSIVE RStrip(_)
RStrip(s) ==
  IF s # <<>> /\ IsSpace(s[Len(s)]) THEN RStrip(SubSeq(s, 1, Len(s) - 1)) ELSE s

\* str.strip()
Strip(s) == RStrip(LStrip(s))

\* str.split(): the maximal runs of non-whitespace characters.
RECURSIVE SplitFrom(_, _, _)
SplitFrom(s, cur, acc) ==
  IF s = <<>> THEN (IF cur = <<>> THEN acc ELSE Append(acc, cur))
  ELSE IF IsSpace(Head(s))
       THEN SplitFrom(Tail(s), <<>>, IF cur = <<>> THEN acc ELSE Append(acc, cur))
       ELSE SplitFrom(Tail(s), Append(cur, Head(s)), acc)

Split(s) == SplitFrom(s, <<>>, <<>>)

\* sep.join(parts)
RECURSIVE Join(_, _)
Join(parts, sep) ==
  IF parts = <<>> THEN <<>>
  ELSE IF Len(parts) = 1 THEN parts[1]
  ELSE parts[1] \o sep \o Join(Tail(parts), sep)

\* re.sub(r"\s+", " ", str(s)).strip()
_clean_spaces(s) ==
  LET RECURSIVE Sub(_, _)
      Sub(t, inrun) ==
        IF t = <<>> THEN <<>>
        ELSE IF IsSpace(Head(t))
             THEN (IF inrun THEN <<>> ELSE <<" ">>) \o Sub(Tail(t), TRUE)
             ELSE <<Head(t)>> \o Sub(Tail(t), FALSE)
  IN Strip(Sub(s, FALSE))

\* s starts with the literal pat
StartsWith(s, pat) == Len(s) >= Len(pat) /\ SubSeq(s, 1, Len(pat)) = pat

\* str.replace(pat, rep): left to right, non-overlapping
RECURSIVE Replace(_, _, _)
Replace(s, pat, rep) ==
  IF s = <<>> THEN <<>>
  ELSE IF StartsWith(s, pat)
       THEN rep \o Replace(SubSeq(s, Len(pat) + 1, Len(s)), pat, rep)
       ELSE <<Head(s)>> \o Replace(Tail(s), pat, rep)

\* pat in s
RECURSIVE Contains(_, _)
Contains(s, pat) ==
  IF Len(s) < Len(pat) THEN FALSE
  ELSE StartsWith(s, pat) \/ Contains(Tail(s), pat)

\* ------------------------------------------------------------ sentence key

\* html.unescape on the entities of the model's alphabet
UnescapeChar(c) ==
  CASE c = "&amp;"  -> "&"
    [] c = "&lt;"   -> "<"
    [] c = "&gt;"   -> ">"
    [] c = "&nbsp;" -> NBSP
    [] OTHER        -> c

Unescape(s) == [i \in DOMAIN s |-> UnescapeChar(s[i])]

\* index of the first ">" at or after position i of s, 0 if there is none
RECURSIVE FirstGt(_, _)
FirstGt(s, i) ==
  IF i > Len(s) THEN 0 ELSE IF s[i] = ">" THEN i ELSE FirstGt(s, i + 1)

\* _HTML_TAG_RE.sub(" ", text) with _HTML_TAG_RE = <[^>]+>
RECURSIVE TagSub(_)
TagSub(s) ==
  IF s = <<>> THEN <<>>
  ELSE LET j == FirstGt(s, 2)
       IN IF Head(s) = "<" /\ j >= 3
          THEN <<" ">> \o TagSub(SubSeq(s, j + 1, Len(s)))
          ELSE <<Head(s)>> \o TagSub(Tail(s))

\* A slip: the entities are left as they are.
NormalizeNoUnescape(value) ==
  LET t2 == Replace(Replace(Replace(Replace(value,
                <<"<","b","r"," ","/",">">>, <<"\n">>),
                <<"<","b","r",">">>, <<"\n">>),
                <<"<","/","d","i","v",">">>, <<"\n">>),
                <<"<","d","i","v",">">>, <<"\n">>)
      t3 == TagSub(t2)
      t4 == Replace(Replace(t3, <<"\r","\n">>, <<"\n">>), <<"\r">>, <<"\n">>)
  IN Strip(Join(Split(t4), <<" ">>))

\* _normalize_sentence_for_key, lines 131-147
_normalize_sentence_for_key(value) ==
  LET t1 == Unescape(value)
      t2 == Replace(Replace(Replace(Replace(t1,
                <<"<","b","r"," ","/",">">>, <<"\n">>),
                <<"<","b","r",">">>, <<"\n">>),
                <<"<","/","d","i","v",">">>, <<"\n">>),
                <<"<","d","i","v",">">>, <<"\n">>)
      t3 == TagSub(t2)
      t4 == Replace(Replace(t3, <<"\r","\n">>, <<"\n">>), <<"\r">>, <<"\n">>)
  IN Strip(Join(Split(t4), <<" ">>))

_sentence_duplicate_key(word_en, sentence_pt, sentence_en) ==
  << Lower(Strip(word_en)),
     _normalize_sentence_for_key(sentence_pt),
     _normalize_sentence_for_key(sentence_en) >>

\* ------------------------------------------------------------ CSV store

\* A file is [exists, lines]; a line is the list of its fields as csv.reader
\* returns them, <<>> for a blank line.  The fields of the model hold no comma,
\* quote or line break, so csv.writer writes them unquoted and the text of a
\* line is its fields joined by commas.
NoFile == [exists |-> FALSE, lines |-> <<>>]

IsEmptyFile(f) == ~f.exists \/ f.lines = <<>>

HEADER == << <<"w","o","r","d","_","e","n">>,
             <<"w","o","r","d","_","p","t">>,
             <<"s","e","n","t","e","n","c","e","_","p","t">>,
             <<"s","e","n","t","e","n","c","e","_","e","n">>,
             <<"d","a","t","e","_","a","d","d","e","d">> >>

LineText(row) == Join(row, <<",">>)

IsDigit(c) == c \in {"0","1","2","3","4","5","6","7","8","9"}

\* re.match(r'^\d{4}-\d{2}-\d{2}$', s)
IsIsoDate(s) ==
  /\ Len(s) = 10
  /\ \A i \in {1, 2, 3, 4, 6, 7, 9, 10} : IsDigit(s[i])
  /\ s[5] = "-" /\ s[8] = "-"

\* first_line.split(',')[0]
RECURSIVE UpToComma(_)
UpToComma(s) ==
  IF s = <<>> \/ Head(s) = "," THEN <<>> ELSE <<Head(s)>> \o UpToComma(Tail(s))

\* Returns <<has_header, format_type>>
_detect_csv_format(f) ==
  IF IsEmptyFile(f) THEN <<FALSE, "new">>
  ELSE LET first_line == Strip(LineText(f.lines[1]))
       IN IF first_line = <<>> THEN <<FALSE, "new">>
          ELSE IF Contains(Lower(first_line), HEADER[1]) THEN <<TRUE, "new">>
          ELSE IF IsIsoDate(Strip(UpToComma(first_line))) THEN <<FALSE, "old">>
          ELSE <<FALSE, "new">>

\* The indices of the rows the two loaders look at: the non-blank rows, less
\* the first of them when the file has a header.
DataRowIdx(f, has_header) ==
  LET nonblank == {i \in DOMAIN f.lines : f.lines[i] # <<>>}
  IN {i \in nonblank : ~(has_header /\ \A k \in nonblank : i <= k)}

load_existing_words(f) ==
  IF IsEmptyFile(f) THEN {}
  ELSE LET det == _detect_csv_format(f)
           word_en_col == IF det[2] = "new" THEN 1 ELSE 3
       IN { Lower(Strip(f.lines[i][word_en_col])) :
              i \in { k \in DataRowIdx(f, det[1]) :
                        /\ Len(f.lines[k]) >= word_en_col
                        /\ Lower(Strip(f.lines[k][word_en_col])) # <<>> } }

load_existing_sentence_pairs(f) ==
  IF IsEmptyFile(f) THEN {}
  ELSE LET det == _detect_csv_format(f)
           cols == IF det[2] = "new" THEN <<1, 3, 4>> ELSE <<3, 4, 5>>
       IN { _sentence_duplicate_key(f.lines[i][cols[1]], f.lines[i][cols[2]],
                                    f.lines[i][cols[3]]) :
              i \in { k \in DataRowIdx(f, det[1]) : Len(f.lines[k]) >= cols[3] } }

\* [word_en, word_pt, sentence_pt, sentence_en, date_added] ->
\* [date_added, word_pt, word_en, sentence_pt, sentence_en]
ToOldOrder(row) == <<row[5], row[2], row[1], row[3], row[4]>>

append_rows(f, rows) ==
  IF IsEmptyFile(f)
  THEN [exists |-> TRUE, lines |-> <<HEADER>> \o rows]
  ELSE LET det == _detect_csv_format(f)
       IN [exists |-> TRUE,
           lines  |-> f.lines \o [i \in DOMAIN rows |->
                        IF det[2] = "old" THEN ToOldOrder(rows[i]) ELSE rows[i]]]

\* last_import.open("w") ... writerow(header); writerows(rows)
WriteSnapshot(rows) == [exists |-> TRUE, lines |-> <<HEADER>> \o rows]

\* ------------------------------------------------------------ normalisation

\* _SMART_MAP: the curly quotes and the narrow spaces are one symbol each.
_normalize_ascii_quotes(s) ==
  [i \in DOMAIN s |->
     CASE s[i] \in {"ldquo", "rdquo"} -> "\""
       [] s[i] \in {"lsquo", "rsquo"} -> "'"
       [] s[i] \in {NBSP, "thinsp", "hairsp", "nnbsp"} -> " "
       [] OTHER -> s[i]]

_STOPWORDS ==
  { <<"i">>, <<"y","o","u">>, <<"h","e">>, <<"s","h","e">>, <<"i","t">>,
    <<"w","e">>, <<"t","h","e","y">>, <<"m","e">>, <<"h","i","m">>,
    <<"h","e","r">>, <<"u","s">>, <<"t","h","e","m">>, <<"a">>, <<"a","n">>,
    <<"t","h","e">>, <<"t","h","i","s">>, <<"t","h","a","t">>,
    <<"t","h","e","s","e">>, <<"t","h","o","s","e">>, <<"t","o">>,
    <<"o","f">>, <<"i","n">>, <<"o","n">>, <<"a","t">>, <<"f","o","r">>,
    <<"f","r","o","m">>, <<"w","i","t","h">>, <<"b","y">>, <<"a","s">>,
    <<"a","b","o","u","t">>, <<"i","n","t","o">>,
    <<"t","h","r","o","u","g","h">>, <<"o","v","e","r">>,
    <<"a","f","t","e","r">>, <<"b","e","f","o","r","e">>,
    <<"b","e","t","w","e","e","n">>, <<"w","i","t","h","o","u","t">>,
    <<"w","i","t","h","i","n">>, <<"a","g","a","i","n","s","t">>,
    <<"a","n","d">>, <<"o","r">>, <<"b","u","t">>, <<"i","f">>,
    <<"b","e","c","a","u","s","e">>, <<"s","o">>,
    <<"t","h","o","u","g","h">>, <<"a","l","t","h","o","u","g","h">>,
    <<"w","h","i","l","e">>, <<"b","e">>, <<"a","m">>, <<"i","s">>,
    <<"a","r","e">>, <<"w","a","s">>, <<"w","e","r","e">>,
    <<"b","e","e","n">>, <<"b","e","i","n","g">>, <<"h","a","v","e">>,
    <<"h","a","s">>, <<"h","a","d">>, <<"h","a","v","i","n","g">>,
    <<"d","o">>, <<"d","o","e","s">>, <<"d","i","d">>,
    <<"d","o","i","n","g">>, <<"c","a","n">>, <<"c","o","u","l","d">>,
    <<"s","h","o","u","l","d">>, <<"w","o","u","l","d">>,
    <<"w","i","l","l">>, <<"m","u","s","t">>, <<"m","a","y">>,
    <<"m","i","g","h","t">>, <<"m","y">>, <<"y","o","u","r">>,
    <<"h","i","s">>, <<"o","u","r">>, <<"t","h","e","i","r">>,
    <<"m","i","n","e">>, <<"y","o","u","r","s">>, <<"h","e","r","s">>,
    <<"o","u","r","s">>, <<"t","h","e","i","r","s">>, <<"p","a","g","e">>,
    <<"p","a","g","e","s">> }

IsAsciiLetter(c) ==
  \E i \in DOMAIN UpperCase : c = UpperCase[i] \/ c = LowerCase[i]

\* \w
IsWordChar(c) == IsAsciiLetter(c) \/ IsDigit(c) \/ c = "_"

\* _PUNCT_RE.sub("", t) with _PUNCT_RE = ^[^\w]+|[^\w]+$
RECURSIVE LStripPunct(_)
LStripPunct(t) ==
  IF t # <<>> /\ ~IsWordChar(Head(t)) THEN LStripPunct(Tail(t)) ELSE t

RECURSIVE RStripPunct(_)
RStripPunct(t) ==
  IF t # <<>> /\ ~IsWordChar(t[Len(t)])
  THEN RStripPunct(SubSeq(t, 1, Len(t) - 1)) ELSE t

StripPunct(t) == RStripPunct(LStripPunct(t))

RECURSIVE KeepNonEmpty(_)
KeepNonEmpty(ts) ==
  IF ts = <<>> THEN <<>>
  ELSE (IF Head(ts) = <<>> THEN <<>> ELSE <<Head(ts)>>) \o KeepNonEmpty(Tail(ts))

_tokens(s) ==
  LET parts == Split(_clean_spaces(s))
  IN KeepNonEmpty([i \in DOMAIN parts |-> StripPunct(parts[i])])

\* the longest prefix of s made of ASCII letters
RECURSIVE LetterRun(_)
LetterRun(s) ==
  IF s # <<>> /\ IsAsciiLetter(Head(s)) THEN <<Head(s)>> \o LetterRun(Tail(s))
  ELSE <<>>

\* re.search(r"\bto\s+([a-zA-Z]+)\b", s): group 1 of the leftmost match, <<>>
\* when nothing matches.  The letters are taken greedily and must end at a word
\* boundary, so a run followed by a digit or an underscore does not match.
RECURSIVE ToVerbFrom(_, _)
ToVerbFrom(s, i) ==
  IF i + 1 > Len(s) THEN <<>>
  ELSE LET rest == SubSeq(s, i + 2, Len(s))
           word == LetterRun(LStrip(rest))
           after == SubSeq(LStrip(rest), Len(word) + 1, Len(LStrip(rest)))
           hit  == /\ s[i] = "t" /\ s[i + 1] = "o"
                   /\ (i = 1 \/ ~IsWordChar(s[i - 1]))
                   /\ rest # <<>> /\ IsSpace(Head(rest))
                   /\ word # <<>>
                   /\ (after = <<>> \/ ~IsWordChar(Head(after)))
       IN IF hit THEN word ELSE ToVerbFrom(s, i + 1)

\* re.sub(r"[.!?]+$", "", s)
RECURSIVE StripFinalPunct(_)
StripFinalPunct(s) ==
  IF s # <<>> /\ s[Len(s)] \in {".", "!", "?"}
  THEN StripFinalPunct(SubSeq(s, 1, Len(s) - 1)) ELSE s

RECURSIVE NonStop(_)
NonStop(ts) ==
  IF ts = <<>> THEN <<>>
  ELSE (IF Lower(Head(ts)) \in _STOPWORDS THEN <<>> ELSE <<Head(ts)>>)
       \o NonStop(Tail(ts))

\* max(remaining, key=len): the first token of the greatest length
LongestFirst(ts) ==
  ts[CHOOSE i \in DOMAIN ts :
       /\ \A k \in DOMAIN ts : Len(ts[k]) <= Len(ts[i])
       /\ \A k \in DOMAIN ts : Len(ts[k]) = Len(ts[i]) => i <= k]

None == <<>>

W_print == <<"p","r","i","n","t">>

\* A slip: the 5 to 8 token rule is tried before the 'to VERB' rule.
ExtractPhraseFirst(raw) ==
  LET s    == Strip(_normalize_ascii_quotes(raw))
      toks == _tokens(s)
      verb == ToVerbFrom(s, 1)
      remaining == NonStop(toks)
  IN IF s = <<>> THEN None
     ELSE IF toks = <<>> THEN None
     ELSE IF Len(toks) <= 3
          THEN <<_clean_spaces(Join(toks, <<" ">>)), "short-phrase">>
     ELSE IF Len(toks) >= 5 /\ Len(toks) <= 8 /\ remaining # <<>>
          THEN <<_clean_spaces(StripFinalPunct(s)), "phrase-extended">>
     ELSE IF verb # <<>> THEN <<Lower(verb), "to-VERB">>
     ELSE IF remaining # <<>>
          THEN IF \E i \in DOMAIN remaining : Lower(remaining[i]) = W_print
               THEN <<W_print, "content-print">>
               ELSE <<Lower(LongestFirst(remaining)), "content-longest">>
     ELSE IF Len(toks) >= 4 /\ s[Len(s)] \in {".", "!", "?"} THEN None
     ELSE <<Lower(Join(SubSeq(toks, 1, 3), <<" ">>)), "fallback-top3">>

\* A slip: the extended phrase is returned as the punctuation left it.
ExtractPhraseUncleaned(raw) ==
  LET s    == Strip(_normalize_ascii_quotes(raw))
      toks == _tokens(s)
      verb == ToVerbFrom(s, 1)
      remaining == NonStop(toks)
  IN IF s = <<>> THEN None
     ELSE IF toks = <<>> THEN None
     ELSE IF Len(toks) <= 3
          THEN <<_clean_spaces(Join(toks, <<" ">>)), "short-phrase">>
     ELSE IF verb # <<>> THEN <<Lower(verb), "to-VERB">>
     ELSE IF Len(toks) >= 5 /\ Len(toks) <= 8 /\ remaining # <<>>
          THEN <<StripFinalPunct(s), "phrase-extended">>
     ELSE IF remaining # <<>>
          THEN IF \E i \in DOMAIN remaining : Lower(remaining[i]) = W_print
               THEN <<W_print, "content-print">>
               ELSE <<Lower(LongestFirst(remaining)), "content-longest">>
     ELSE IF Len(toks) >= 4 /\ s[Len(s)] \in {".", "!", "?"} THEN None
     ELSE <<Lower(Join(SubSeq(toks, 1, 3), <<" ">>)), "fallback-top3">>

\* Returns <<lemma, rule>> or None.
extract_lemma(raw) ==
  LET s    == Strip(_normalize_ascii_quotes(raw))
      toks == _tokens(s)
      verb == ToVerbFrom(s, 1)
      remaining == NonStop(toks)
  IN IF s = <<>> THEN None
     ELSE IF toks = <<>> THEN None
     ELSE IF Len(toks) <= 3
          THEN <<_clean_spaces(Join(toks, <<" ">>)), "short-phrase">>
     ELSE IF verb # <<>> THEN <<Lower(verb), "to-VERB">>
     ELSE IF Len(toks) >= 5 /\ Len(toks) <= 8 /\ remaining # <<>>
          THEN <<_clean_spaces(StripFinalPunct(s)), "phrase-extended">>
     ELSE IF remaining # <<>>
          THEN IF \E i \in DOMAIN remaining : Lower(remaining[i]) = W_print
               THEN <<W_print, "content-print">>
               ELSE <<Lower(LongestFirst(remaining)), "content-longest">>
     ELSE IF Len(toks) >= 4 /\ s[Len(s)] \in {".", "!", "?"} THEN None
     ELSE <<Lower(Join(SubSeq(toks, 1, 3), <<" ">>)), "fallback-top3">>

\* ------------------------------------------------------------ main: pure steps

\* main, lines 925-939: the candidates <<lemma, rule, original>> in inbox order
RECURSIVE Normalize(_, _)
Normalize(raw_items, strict_flag) ==
  IF raw_items = <<>> THEN <<>>
  ELSE LET raw  == Head(raw_items)
           res  == extract_lemma(raw)
           rest == Normalize(Tail(raw_items), strict_flag)
           skip_strict ==
             /\ strict_flag
             /\ \/ Len(_tokens(raw)) > 3
                \/ (Strip(raw) # <<>> /\ Strip(raw)[Len(Strip(raw))] \in {".", "!", "?"})
       IN IF skip_strict \/ res = None THEN rest
          ELSE << <<res[1], res[2], raw>> >> \o rest

\* A slip: the stored words drop a phrase as they drop a single word.
RECURSIVE WordFilterNoPhraseTest(_, _, _)
WordFilterNoPhraseTest(normalized, existing_words, seen) ==
  IF normalized = <<>> THEN <<>>
  ELSE LET lemma == Head(normalized)[1]
           k     == Lower(Strip(lemma))
           rest  == Tail(normalized)
       IN IF k = <<>> \/ k \in seen
          THEN WordFilterNoPhraseTest(rest, existing_words, seen)
          ELSE IF k \in existing_words
          THEN WordFilterNoPhraseTest(rest, existing_words, seen)
          ELSE << <<lemma, Head(normalized)[3]>> >>
               \o WordFilterNoPhraseTest(rest, existing_words, seen \cup {k})

\* main, lines 952-961: the word-level filter; returns todo, <<lemma, original>>
RECURSIVE WordFilterFrom(_, _, _)
WordFilterFrom(normalized, existing_words, seen) ==
  IF normalized = <<>> THEN <<>>
  ELSE LET lemma == Head(normalized)[1]
           k     == Lower(Strip(lemma))
           rest  == Tail(normalized)
       IN IF k = <<>> \/ k \in seen
          THEN WordFilterFrom(rest, existing_words, seen)
          ELSE IF ~Contains(k, <<" ">>) /\ k \in existing_words
          THEN WordFilterFrom(rest, existing_words, seen)
          ELSE << <<lemma, Head(normalized)[3]>> >>
               \o WordFilterFrom(rest, existing_words, seen \cup {k})

WordFilter(normalized, existing_words) ==
  WordFilterFrom(normalized, existing_words, {})

\* todo[: args.limit] when args.limit > 0
ApplyLimit(todo_list, n) ==
  IF n > 0 /\ Len(todo_list) > n THEN SubSeq(todo_list, 1, n) ELSE todo_list

\* main, lines 1025-1044: the sentence-level filter over this run's rows
RECURSIVE SentenceFilterFrom(_, _)
SentenceFilterFrom(rows, seen_keys) ==
  IF rows = <<>> THEN <<>>
  ELSE LET row == Head(rows)
           key == _sentence_duplicate_key(row[1], row[3], row[4])
       IN IF key \in seen_keys
          THEN SentenceFilterFrom(Tail(rows), seen_keys)
          ELSE <<row>> \o SentenceFilterFrom(Tail(rows), seen_keys \cup {key})

\* A slip: the rows are compared with each other and not with the store.
SentenceFilterRunOnly(rows, existing_pairs) == SentenceFilterFrom(rows, {})

\* A slip: the rows that pass the filter come out last first.
SentenceFilterLastFirst(rows, existing_pairs) ==
  LET kept == SentenceFilterFrom(rows, existing_pairs)
  IN [k \in DOMAIN kept |-> kept[Len(kept) + 1 - k]]

\* main, lines 1022-1024: the filter starts from the keys of the store
SentenceFilter(rows, existing_pairs) == SentenceFilterFrom(rows, existing_pairs)

\* ------------------------------------------------------------ enrichment

\* What the text-generation collaborator sends back for one call: it raises
\* (no credentials, transport error, content that is no JSON object), or its
\* content parses to an object; a key the object lacks reads as the empty string.
LLMRaise == [kind |-> "raise"]

LLMJson(we, wp, sp, se) ==
  [kind |-> "json", word_en |-> we, word_pt |-> wp,
   sentence_pt |-> sp, sentence_en |-> se]

\* A value of the object that is JSON null is the one symbol JNull; str() of it
\* is the text None, and it has no strip().
JNull == <<"null">>

Str(v) == IF v = JNull THEN <<"N","o","n","e">> ELSE v

\* ask_llm, lines 805-822: <<TRUE, pack>> or <<FALSE, reason>>
ask_llm(resp) ==
  IF resp.kind = "raise" THEN <<FALSE, "raised">>
  ELSE IF Strip(Str(resp.word_en)) = <<>>
       THEN <<FALSE, "Missing required field: word_en">>
  ELSE IF Strip(Str(resp.word_pt)) = <<>>
       THEN <<FALSE, "Missing required field: word_pt">>
  ELSE IF Strip(Str(resp.sentence_pt)) = <<>>
       THEN <<FALSE, "Missing required field: sentence_pt">>
  ELSE IF Strip(Str(resp.sentence_en)) = <<>>
       THEN <<FALSE, "Missing required field: sentence_en">>
  ELSE IF resp.word_en = JNull \/ resp.word_pt = JNull
       THEN <<FALSE, "AttributeError">>
  ELSE <<TRUE, << Strip(resp.word_en), Strip(resp.word_pt),
                  _clean_spaces(Str(resp.sentence_pt)),
                  _clean_spaces(Str(resp.sentence_en)) >> >>

\* ------------------------------------------------------------ AnkiConnect client

\* One HTTP attempt ends "ok", with a connection-refused URLError ("refused"),
\* with another URLError ("urlerror"), or with an exception that is no URLError
\* ("other": a timeout, a reset, a body that is no JSON).
NetOutcomes == {"ok", "refused", "urlerror", "other"}

\* subprocess.Popen starts the command or raises
LaunchOutcomes == {"started", "raised"}

\* What the network and the launch command do during one anki_invoke call.  The
\* launch and the second attempt are listed only where a first attempt refused
\* can reach them.
NetScripts ==
  { n \in [o1 : NetOutcomes, launch : LaunchOutcomes, o2 : NetOutcomes] :
      /\ n.o1 # "refused" => (n.launch = "started" /\ n.o2 = "ok")
      /\ n.launch = "raised" => n.o2 = "ok" }

\* _should_retry_connection
_should_retry_connection(outcome) == outcome = "refused"

\* A slip: a launch command that raised is not remembered.
LaunchForgetsFailure(attempted, launch) ==
  IF attempted THEN [ret |-> FALSE, attempted |-> TRUE, popen |-> 0]
  ELSE IF launch = "started"
       THEN [ret |-> TRUE, attempted |-> TRUE, popen |-> 1]
       ELSE [ret |-> FALSE, attempted |-> FALSE, popen |-> 1]

\* _launch_anki: [ret, attempted, popen], popen the number of Popen calls made
_launch_anki(attempted, launch) ==
  IF attempted THEN [ret |-> FALSE, attempted |-> TRUE, popen |-> 0]
  ELSE IF launch = "started"
       THEN [ret |-> TRUE, attempted |-> TRUE, popen |-> 1]
       ELSE [ret |-> FALSE, attempted |-> TRUE, popen |-> 1]

\* A slip: a refused first attempt is retried whether or not the launch started.
InvokeRetriesUnlaunched(action, attempted, net) ==
  LET base == [action |-> action, first |-> net.o1, before |-> attempted]
      once == [attempts |-> 1, popen |-> 0, started |-> FALSE,
               attempted |-> attempted, second |-> "-"]
  IN IF net.o1 = "ok" THEN base @@ [ok |-> TRUE] @@ once
     ELSE IF ~_should_retry_connection(net.o1) THEN base @@ [ok |-> FALSE] @@ once
     ELSE LET l == _launch_anki(attempted, net.launch)
          IN base @@ [ok |-> net.o2 = "ok", attempts |-> 2, popen |-> l.popen,
                      started |-> l.ret, attempted |-> l.attempted,
                      second |-> net.o2]

\* anki_invoke under the script net, entered with _anki_launch_attempted =
\* attempted.  ok: a response was returned; attempts: urlopen calls made.
anki_invoke(action, attempted, net) ==
  LET base == [action |-> action, first |-> net.o1, before |-> attempted]
      once == [attempts |-> 1, popen |-> 0, started |-> FALSE,
               attempted |-> attempted, second |-> "-"]
  IN IF net.o1 = "ok" THEN base @@ [ok |-> TRUE] @@ once
     ELSE IF net.o1 = "other" THEN base @@ [ok |-> FALSE] @@ once
     ELSE IF ~_should_retry_connection(net.o1) THEN base @@ [ok |-> FALSE] @@ once
     ELSE LET l == _launch_anki(attempted, net.launch)
          IN IF l.ret
             THEN base @@ [ok |-> net.o2 = "ok", attempts |-> 2, popen |-> l.popen,
                           started |-> TRUE, attempted |-> l.attempted,
                           second |-> net.o2]
             ELSE base @@ [ok |-> FALSE, attempts |-> 1, popen |-> l.popen,
                           started |-> FALSE, attempted |-> l.attempted,
                           second |-> "-"]

\* ------------------------------------------------------------ inputs

\* raw inbox entries
R_print    == <<"p","r","i","n","t">>
R_Capital == <<"P","r","i","n","t">>
R_bigdate  == <<"b","i","g"," ","d","a","t","e">>
R_thepage  == <<"T","h","i","s"," ","i","s"," ","t","h","e"," ","p","a","g","e",".">>

RawPool == {R_print, R_Capital, R_bigdate, R_thepage}

\* the longest inbox explored
MaxInbox == 2

RECURSIVE SeqsUpTo(_, _)
SeqsUpTo(S, n) ==
  IF n = 0 THEN {<<>>}
  ELSE LET shorter == SeqsUpTo(S, n - 1)
       IN shorter \cup {Append(q, e) : q \in {t \in shorter : Len(t) = n - 1}, e \in S}

Inboxes == SeqsUpTo(RawPool, MaxInbox)

\* dt.datetime.now().strftime("%Y-%m-%d")
TODAY == <<"2","0","2","6","-","1","0","-","3","1">>
D_old == <<"2","0","2","4","-","0","1","-","0","1">>

W_pt == <<"p","t">>
T_xy_space == <<"x"," ","y">>
T_xy_br    == <<"x","<","b","r",">","y">>
T_xy_bold  == <<"<","b",">","x","<","/","b",">"," ","&nbsp;","y"," ">>
T_xy_mid   == <<"x","<","i",">","y","<","/","i",">">>
T_xy       == <<"x","y">>
T_u        == <<"u">>

\* the stores a run may start from: no file, a current-format file with a
\* header, a legacy file (date first, no header), a current file of two rows
\* without header
StorePool ==
  { NoFile,
    [exists |-> TRUE, lines |-> <<HEADER, <<R_print, W_pt, T_xy_br, T_u, D_old>> >>],
    [exists |-> TRUE, lines |-> << <<D_old, W_pt, R_bigdate, T_xy_space, T_u>> >>],
    [exists |-> TRUE, lines |-> << <<R_Capital, W_pt, T_xy, T_u, D_old>>,
                                   <<R_bigdate, W_pt, T_xy_mid, T_u, D_old>> >>] }

\* the snapshots a run may find: none, or the one an earlier import left
SnapshotPool ==
  { NoFile, WriteSnapshot(<< <<R_print, W_pt, T_xy_br, T_u, D_old>> >>) }

\* what the collaborator may answer to one enrichment call
LLMPool ==
  { LLMRaise,
    LLMJson(R_print, <<>>, T_xy_space, T_u),
    LLMJson(R_print, W_pt, T_xy_space, T_u),
    LLMJson(<<" ">> \o R_Capital, W_pt, T_xy_bold, T_u),
    LLMJson(R_print, W_pt, T_xy_mid, T_u),
    LLMJson(R_print, W_pt, T_xy, T_u),
    LLMJson(R_bigdate, W_pt, T_xy_space, T_u) }

\* the command lines explored: <<--dry-run, --limit, --strict>>
ArgPool == { <<FALSE, 0, FALSE>>, <<TRUE, 0, FALSE>>, <<FALSE, 1, FALSE>>,
             <<FALSE, 0, TRUE>>, <<TRUE, 1, TRUE>> }

\* ------------------------------------------------------------ state

VARIABLES
  inbox,        \* the entries read_quick_entries returns
  store,        \* master_csv
  snapshot,     \* last_import
  dry_run,      \* args.dry_run
  limit,        \* args.limit
  strict,       \* args.strict
  llm_pool,     \* the answers the collaborator gives in this behaviour
  pc,           \* where main stands
  todo,         \* main's todo
  idx,          \* the next item of todo to enrich
  new_rows,     \* main's new_rows
  failures,     \* main's failures: the lemmas whose enrichment failed
  row_idx,      \* add_notes_to_anki: the next row
  notes,        \* add_notes_to_anki: notes (a note is its fields row)
  seen_pairs,   \* add_notes_to_anki: seen_pairs
  cache,        \* add_notes_to_anki: anki_sentence_cache
  flags,        \* the canAddNotes result
  addable,      \* the notes sent with addNotes
  added,        \* the count add_notes_to_anki returns
  committed,    \* history: the notes of the addNotes request
  launch_attempted, \* _anki_launch_attempted
  exit,         \* main's return value, "none" while it runs
  llm_log,      \* history: <<lemma, response>> of every ask_llm call of this run
  last_invoke,  \* history: the latest anki_invoke call of the client alone
  sync_calls,   \* history: the actions sent to AnkiConnect in this run, in order
  popen_count,  \* history: Popen calls of this process
  outcome,      \* history: how the persistence and sync stages ended
  store0,       \* history: the store when the run started
  snapshot0,    \* history: the snapshot when the run started
  run,          \* history: the number of the current run
  prev,         \* history: exit, llm_log, persistence outcome, rows appended of the run before
  calls,        \* history: <<argument, result>> of the calls of a function run alone
  inbox_dir,    \* the files of the inbox directory of merge_quick.py: name -> text
  other         \* a second process running main: its locals while the first one runs

vars == << inbox, store, snapshot, dry_run, limit, strict, llm_pool, pc, todo, idx, new_rows,
           failures, row_idx, notes, seen_pairs, cache, flags, addable, added,
           committed, launch_attempted, exit, llm_log, last_invoke, sync_calls, popen_count,
           outcome, store0, snapshot0, run, prev, calls, inbox_dir, other >>

\* what no step of main assigns
inputs == << inbox, dry_run, limit, strict, llm_pool, calls, inbox_dir, other >>
sync_locals == << row_idx, notes, seen_pairs, cache, flags, addable, added,
                 committed >>

NoInvoke == [action |-> "none"]
NoOutcome == [persist |-> "none", sync |-> "none", refresh |-> "none", usage |-> "none"]
NoPrev == [exit |-> "none", llm_log |-> <<>>, persist |-> "none", appended |-> 0]
\* an inbox directory without files
NoDir == <<>>

\* the locals of a process that has just started
Fresh ==
  /\ pc = "start" /\ todo = <<>> /\ idx = 1 /\ new_rows = <<>> /\ failures = <<>>
  /\ row_idx = 1 /\ notes = <<>> /\ seen_pairs = {} /\ cache = <<>>
  /\ flags = <<>> /\ addable = <<>> /\ added = 0 /\ committed = <<>>
  /\ launch_attempted = FALSE /\ exit = "none"
  /\ llm_log = <<>> /\ last_invoke = NoInvoke /\ sync_calls = <<>> /\ popen_count = 0
  /\ outcome = NoOutcome

\* a first run, with a collaborator that answers from one of pools
Start(pools) ==
  /\ inbox \in Inboxes
  /\ store \in StorePool
  /\ snapshot \in SnapshotPool
  /\ \E a \in ArgPool : dry_run = a[1] /\ limit = a[2] /\ strict = a[3]
  /\ llm_pool \in pools
  /\ Fresh
  /\ store0 = store /\ snapshot0 = snapshot
  /\ run = 1 /\ prev = NoPrev /\ calls = <<>> /\ inbox_dir = NoDir /\ other = <<>>

Init == Start({LLMPool})

\* ------------------------------------------------------------ main: actions

Return(code) == pc' = "done" /\ exit' = code

\* main, lines 919-968: read, normalise, filter on words
Prepare ==
  /\ pc = "start"
  /\ LET normalized == Normalize(inbox, strict)
         existing_words == load_existing_words(store)
         todo_list == ApplyLimit(WordFilter(normalized, existing_words), limit)
     IN IF inbox = <<>> \/ normalized = <<>> \/ todo_list = <<>>
        THEN Return(0) /\ todo' = <<>>
        ELSE pc' = "enrich" /\ exit' = exit /\ todo' = todo_list
  /\ UNCHANGED << inputs, store, snapshot, idx, new_rows, failures, sync_locals,
                  launch_attempted, llm_log, last_invoke, sync_calls, popen_count,
                  outcome, store0, snapshot0, run, prev >>

\* A slip: the first failure ends the enrichment loop.
EnrichStopsAtFailure ==
  /\ pc = "enrich" /\ idx <= Len(todo)
  /\ \E resp \in llm_pool :
       LET res == ask_llm(resp)
       IN /\ llm_log' = Append(llm_log, <<todo[idx][1], resp>>)
          /\ IF res[1]
             THEN /\ new_rows' = Append(new_rows, Append(res[2], TODAY))
                  /\ failures' = failures
                  /\ idx' = idx + 1
             ELSE /\ failures' = Append(failures, todo[idx][1])
                  /\ new_rows' = new_rows
                  /\ idx' = Len(todo) + 1
  /\ UNCHANGED << inputs, store, snapshot, pc, todo, sync_locals, launch_attempted,
                  exit, last_invoke, sync_calls, popen_count, outcome, store0,
                  snapshot0, run, prev >>

\* main, lines 977-1008: one pass of the enrichment loop
Enrich ==
  /\ pc = "enrich" /\ idx <= Len(todo)
  /\ \E resp \in llm_pool :
       LET res == ask_llm(resp)
       IN /\ llm_log' = Append(llm_log, <<todo[idx][1], resp>>)
          /\ IF res[1]
             THEN /\ new_rows' = Append(new_rows, Append(res[2], TODAY))
                  /\ failures' = failures
             ELSE /\ failures' = Append(failures, todo[idx][1])
                  /\ new_rows' = new_rows
  /\ idx' = idx + 1
  /\ UNCHANGED << inputs, store, snapshot, pc, todo, sync_locals, launch_attempted,
                  exit, last_invoke, sync_calls, popen_count, outcome, store0,
                  snapshot0, run, prev >>

\* A slip: the snapshot is left as it was when every item failed.
AllFailedKeepsSnapshot ==
  /\ pc = "enrich" /\ idx > Len(todo)
  /\ new_rows = <<>> /\ failures # <<>>
  /\ Return(1)
  /\ UNCHANGED << inputs, store, snapshot, todo, idx, new_rows, failures,
                  sync_locals, launch_attempted, llm_log, last_invoke, sync_calls,
                  popen_count, outcome, store0, snapshot0, run, prev >>

\* main, lines 1010-1018: every item failed
AllFailed ==
  /\ pc = "enrich" /\ idx > Len(todo)
  /\ new_rows = <<>> /\ failures # <<>>
  /\ snapshot' = IF dry_run THEN snapshot ELSE WriteSnapshot(<<>>)
  /\ Return(1)
  /\ UNCHANGED << inputs, store, todo, idx, new_rows, failures, sync_locals,
                  launch_attempted, llm_log, last_invoke, sync_calls, popen_count,
                  outcome, store0, snapshot0, run, prev >>

\* Dedup with the usage log written before the test of line 1051
DedupLogsUsageAlways ==
  /\ pc = "enrich" /\ idx > Len(todo)
  /\ ~(new_rows = <<>> /\ failures # <<>>)
  /\ new_rows' = IF new_rows # <<>>
                 THEN SentenceFilter(new_rows, load_existing_sentence_pairs(store))
                 ELSE new_rows
  /\ outcome' = [outcome EXCEPT !.usage = "opened"]
  /\ IF dry_run THEN Return(0) ELSE pc' = "persist" /\ exit' = exit
  /\ UNCHANGED << inputs, store, snapshot, todo, idx, failures, sync_locals,
                  launch_attempted, llm_log, last_invoke, sync_calls, popen_count,
                  store0, snapshot0, run, prev >>

\* main, lines 1020-1079 and 1114-1119: filter on sentences; a dry run ends
\* here, any other run opens the usage log to append its line (a failure
\* there is warned about and changes nothing else)
Dedup ==
  /\ pc = "enrich" /\ idx > Len(todo)
  /\ ~(new_rows = <<>> /\ failures # <<>>)
  /\ new_rows' = IF new_rows # <<>>
                 THEN SentenceFilter(new_rows, load_existing_sentence_pairs(store))
                 ELSE new_rows
  /\ outcome' = IF dry_run THEN outcome ELSE [outcome EXCEPT !.usage = "opened"]
  /\ IF dry_run THEN Return(0) ELSE pc' = "persist" /\ exit' = exit
  /\ UNCHANGED << inputs, store, snapshot, todo, idx, failures, sync_locals,
                  launch_attempted, llm_log, last_invoke, sync_calls, popen_count,
                  store0, snapshot0, run, prev >>

\* A slip: the snapshot is opened for appending, not for writing.
PersistOkSnapshotGrows ==
  /\ pc = "persist"
  /\ store' = append_rows(store, new_rows)
  /\ snapshot' = append_rows(snapshot, new_rows)
  /\ outcome' = [outcome EXCEPT !.persist = "ok"]
  /\ pc' = "sync_rows" /\ exit' = exit
  /\ UNCHANGED << inputs, todo, idx, new_rows, failures, sync_locals,
                  launch_attempted, llm_log, last_invoke, sync_calls, popen_count,
                  store0, snapshot0, run, prev >>

\* main, lines 1081-1100: append to the store, then write the snapshot.  A
\* write that raises leaves behind what was written before it.
PersistOk ==
  /\ pc = "persist"
  /\ store' = append_rows(store, new_rows)
  /\ snapshot' = WriteSnapshot(new_rows)
  /\ outcome' = [outcome EXCEPT !.persist = "ok"]
  /\ pc' = "sync_rows" /\ exit' = exit
  /\ UNCHANGED << inputs, todo, idx, new_rows, failures, sync_locals,
                  launch_attempted, llm_log, last_invoke, sync_calls, popen_count,
                  store0, snapshot0, run, prev >>

\* main, lines 1081-1100: the append raises, before or between two rows
PersistAppendRaises ==
  /\ pc = "persist"
  /\ \E k \in 0 .. Len(new_rows) :
       /\ k < Len(new_rows) \/ k = 0
       /\ store' \in {store, append_rows(store, SubSeq(new_rows, 1, k))}
  /\ outcome' = [outcome EXCEPT !.persist = "append raised"]
  /\ Return(1)
  /\ UNCHANGED << inputs, snapshot, todo, idx, new_rows, failures, sync_locals,
                  launch_attempted, llm_log, last_invoke, sync_calls, popen_count,
                  store0, snapshot0, run, prev >>

\* A slip: the snapshot is written outside the try, its failure only logged.
PersistSnapshotRaisesGoesOn ==
  /\ pc = "persist"
  /\ store' = append_rows(store, new_rows)
  /\ snapshot' \in {snapshot, [exists |-> TRUE, lines |-> <<>>]}
  /\ outcome' = [outcome EXCEPT !.persist = "snapshot raised"]
  /\ pc' = "sync_rows" /\ exit' = exit
  /\ UNCHANGED << inputs, todo, idx, new_rows, failures, sync_locals,
                  launch_attempted, llm_log, last_invoke, sync_calls, popen_count,
                  store0, snapshot0, run, prev >>

\* main, lines 1088-1100: the snapshot write raises after the append
PersistSnapshotRaises ==
  /\ pc = "persist"
  /\ store' = append_rows(store, new_rows)
  /\ snapshot' \in {snapshot, [exists |-> TRUE, lines |-> <<>>]}
  /\ outcome' = [outcome EXCEPT !.persist = "snapshot raised"]
  /\ Return(1)
  /\ UNCHANGED << inputs, todo, idx, new_rows, failures, sync_locals,
                  launch_attempted, llm_log, last_invoke, sync_calls, popen_count,
                  store0, snapshot0, run, prev >>

\* ------------------------------------------------------------ sync: actions

\* an exception leaves add_notes_to_anki: main, lines 1111-1113
SyncRaises ==
  /\ outcome' = [outcome EXCEPT !.sync = "raised"]
  /\ Return(1)

\* the bookkeeping of one anki_invoke call
Invoked(inv) ==
  /\ sync_calls' = Append(sync_calls, inv.action)
  /\ launch_attempted' = inv.attempted
  /\ popen_count' = popen_count + inv.popen

CurRow == new_rows[row_idx]
CurKey == _sentence_duplicate_key(CurRow[1], CurRow[3], CurRow[4])
CurCacheKey == Lower(Strip(CurRow[1]))

\* add_notes_to_anki, lines 684-707, once the Anki pairs of the word are known
FinishRow(pairs_by_word) ==
  /\ cache' = pairs_by_word
  /\ IF <<CurKey[2], CurKey[3]>> \in pairs_by_word[CurCacheKey]
     THEN notes' = notes /\ seen_pairs' = seen_pairs
     ELSE notes' = Append(notes, CurRow) /\ seen_pairs' = seen_pairs \cup {CurKey}
  /\ row_idx' = row_idx + 1
  /\ pc' = "sync_rows" /\ exit' = exit /\ outcome' = outcome

\* add_notes_to_anki, lines 670-690: a row that needs no lookup
SyncCached ==
  /\ pc = "sync_rows" /\ row_idx <= Len(new_rows)
  /\ CurKey \in seen_pairs \/ CurCacheKey \in DOMAIN cache
  /\ IF CurKey \in seen_pairs
     THEN /\ row_idx' = row_idx + 1
          /\ UNCHANGED << notes, seen_pairs, cache, pc, exit, outcome >>
     ELSE FinishRow(cache)
  /\ UNCHANGED << inputs, store, snapshot, todo, idx, new_rows, failures, flags,
                  addable, added, committed, launch_attempted, llm_log,
                  last_invoke, sync_calls, popen_count, store0, snapshot0, run,
                  prev >>

\* _get_anki_sentence_pairs, lines 572-578: findNotes for the word of the row
SyncFind ==
  /\ pc = "sync_rows" /\ row_idx <= Len(new_rows)
  /\ CurKey \notin seen_pairs /\ CurCacheKey \notin DOMAIN cache
  /\ \E net \in NetScripts, result \in {"error", "no notes", "notes"} :
       LET inv == anki_invoke("findNotes", launch_attempted, net)
       IN /\ Invoked(inv)
          /\ IF ~inv.ok \/ result = "error"
             THEN SyncRaises /\ UNCHANGED << row_idx, notes, seen_pairs, cache >>
             ELSE IF result = "no notes"
             THEN FinishRow(cache @@ (CurCacheKey :> {}))
             ELSE /\ pc' = "sync_info" /\ exit' = exit /\ outcome' = outcome
                  /\ UNCHANGED << row_idx, notes, seen_pairs, cache >>
  /\ UNCHANGED << inputs, store, snapshot, todo, idx, new_rows, failures, flags,
                  addable, added, committed, llm_log, last_invoke, store0,
                  snapshot0, run, prev >>

\* the sentence pairs Anki may report for the word of the current row
AnkiPairs ==
  SUBSET { <<_normalize_sentence_for_key(new_rows[k][3]),
             _normalize_sentence_for_key(new_rows[k][4])>> :
           k \in { m \in DOMAIN new_rows : Lower(Strip(new_rows[m][1])) = CurCacheKey } }

\* _get_anki_sentence_pairs, lines 580-594: notesInfo for the notes found
SyncInfo ==
  /\ pc = "sync_info"
  /\ \E net \in NetScripts, error \in BOOLEAN, pairs \in AnkiPairs :
       LET inv == anki_invoke("notesInfo", launch_attempted, net)
       IN /\ Invoked(inv)
          /\ error => pairs = {}
          /\ IF ~inv.ok \/ error
             THEN SyncRaises /\ UNCHANGED << row_idx, notes, seen_pairs, cache >>
             ELSE FinishRow(cache @@ (CurCacheKey :> pairs))
  /\ UNCHANGED << inputs, store, snapshot, todo, idx, new_rows, failures, flags,
                  addable, added, committed, llm_log, last_invoke, store0,
                  snapshot0, run, prev >>

\* A slip: the flags are not looked at.
RECURSIVE ZipAll(_, _)
ZipAll(ns, fs) ==
  IF ns = <<>> \/ fs = <<>> THEN <<>>
  ELSE <<Head(ns)>> \o ZipAll(Tail(ns), Tail(fs))

\* [n for n, ok in zip(notes, flags) if ok]
RECURSIVE ZipFilter(_, _)
ZipFilter(ns, fs) ==
  IF ns = <<>> \/ fs = <<>> THEN <<>>
  ELSE (IF Head(fs) THEN <<Head(ns)>> ELSE <<>>) \o ZipFilter(Tail(ns), Tail(fs))

\* the results canAddNotes may carry for n notes: one flag per note, or one short
FlagLists(n) ==
  UNION { [1 .. m -> BOOLEAN] : m \in {k \in {n - 1, n} : k >= 0} }

\* add_notes_to_anki, lines 720-732: canAddNotes, unless there is no note
SyncCanAdd ==
  /\ pc = "sync_rows" /\ row_idx > Len(new_rows)
  /\ IF notes = <<>>
     THEN /\ Return(0)
          /\ UNCHANGED << flags, addable, launch_attempted, sync_calls, popen_count,
                          outcome >>
     ELSE \E net \in NetScripts, error \in BOOLEAN, result \in FlagLists(Len(notes)) :
            LET inv == anki_invoke("canAddNotes", launch_attempted, net)
            IN /\ Invoked(inv)
               /\ error => result = <<>>
               /\ IF ~inv.ok \/ error
                  THEN SyncRaises /\ UNCHANGED << flags, addable >>
                  ELSE /\ flags' = result
                       /\ addable' = ZipFilter(notes, result)
                       /\ outcome' = outcome
                       /\ IF ZipFilter(notes, result) = <<>>
                          THEN Return(0)
                          ELSE pc' = "sync_add" /\ exit' = exit
  /\ UNCHANGED << inputs, store, snapshot, todo, idx, new_rows, failures, row_idx,
                  notes, seen_pairs, cache, added, committed, llm_log,
                  last_invoke, store0, snapshot0, run, prev >>

\* sum(1 for nid in gids if isinstance(nid, int))
CountIds(gids) == Cardinality({k \in DOMAIN gids : gids[k] = "id"})

\* SyncAddNotes without the test of line 1105: the refresh follows any sync
SyncAddNotesAlwaysRefresh ==
  /\ pc = "sync_add"
  /\ \E net \in NetScripts, error \in BOOLEAN,
        gids \in [1 .. Len(addable) -> {"id", "null"}] :
       LET inv == anki_invoke("addNotes", launch_attempted, net)
       IN /\ Invoked(inv)
          /\ committed' = addable
          /\ error => \A k \in DOMAIN gids : gids[k] = "null"
          /\ IF ~inv.ok \/ error
             THEN SyncRaises /\ added' = added
             ELSE /\ added' = CountIds(gids)
                  /\ outcome' = [outcome EXCEPT !.sync = "ok"]
                  /\ IF TRUE
                     THEN pc' = "refresh" /\ exit' = exit
                     ELSE Return(0)
  /\ UNCHANGED << inputs, store, snapshot, todo, idx, new_rows, failures, row_idx,
                  notes, seen_pairs, cache, flags, addable, llm_log, last_invoke,
                  store0, snapshot0, run, prev >>

\* add_notes_to_anki, lines 733-740, and main, lines 1103-1105: addNotes
SyncAddNotes ==
  /\ pc = "sync_add"
  /\ \E net \in NetScripts, error \in BOOLEAN,
        gids \in [1 .. Len(addable) -> {"id", "null"}] :
       LET inv == anki_invoke("addNotes", launch_attempted, net)
       IN /\ Invoked(inv)
          /\ committed' = addable
          /\ error => \A k \in DOMAIN gids : gids[k] = "null"
          /\ IF ~inv.ok \/ error
             THEN SyncRaises /\ added' = added
             ELSE /\ added' = CountIds(gids)
                  /\ outcome' = [outcome EXCEPT !.sync = "ok"]
                  /\ IF CountIds(gids) > 0
                     THEN pc' = "refresh" /\ exit' = exit
                     ELSE Return(0)
  /\ UNCHANGED << inputs, store, snapshot, todo, idx, new_rows, failures, row_idx,
                  notes, seen_pairs, cache, flags, addable, llm_log, last_invoke,
                  store0, snapshot0, run, prev >>

\* A slip: a refresh that fails ends the run as a sync failure does.
RefreshFatal ==
  /\ pc = "refresh"
  /\ \E net \in NetScripts :
       LET inv == anki_invoke("gui.refreshAll", launch_attempted, net)
       IN /\ Invoked(inv)
          /\ outcome' = [outcome EXCEPT !.refresh = IF inv.ok THEN "ok" ELSE "raised"]
          /\ Return(IF inv.ok THEN 0 ELSE 1)
  /\ UNCHANGED << inputs, store, snapshot, todo, idx, new_rows, failures,
                  sync_locals, llm_log, last_invoke, store0, snapshot0, run, prev >>

\* main, lines 1105-1110 and 1117-1119: refresh_anki_ui, whose failure is logged
Refresh ==
  /\ pc = "refresh"
  /\ \E net \in NetScripts :
       LET inv == anki_invoke("gui.refreshAll", launch_attempted, net)
       IN /\ Invoked(inv)
          /\ outcome' = [outcome EXCEPT !.refresh = IF inv.ok THEN "ok" ELSE "raised"]
  /\ Return(0)
  /\ UNCHANGED << inputs, store, snapshot, todo, idx, new_rows, failures,
                  sync_locals, llm_log, last_invoke, store0, snapshot0, run, prev >>

\* ------------------------------------------------------------ specifications

Step ==
  \/ Prepare \/ Enrich \/ AllFailed \/ Dedup
  \/ PersistOk \/ PersistAppendRaises \/ PersistSnapshotRaises
  \/ SyncCached \/ SyncFind \/ SyncInfo \/ SyncCanAdd \/ SyncAddNotes \/ Refresh

\* one run of the pipeline, from any inbox, store and command line
Next == Step

Spec == Init /\ [][Next]_vars

\* the runs explored one after the other
MaxRuns == 2

\* The process has exited; the pipeline is started again on the same inbox with
\* the same arguments, in a new process.
NextRun ==
  /\ pc = "done" /\ run < MaxRuns
  /\ run' = run + 1
  /\ prev' = [exit |-> exit, llm_log |-> llm_log, persist |-> outcome.persist,
               appended |-> Len(store.lines) - Len(store0.lines)
                              - (IF IsEmptyFile(store0) /\ store.lines # <<>> THEN 1 ELSE 0)]
  /\ pc' = "start" /\ todo' = <<>> /\ idx' = 1 /\ new_rows' = <<>>
  /\ failures' = <<>> /\ row_idx' = 1 /\ notes' = <<>> /\ seen_pairs' = {}
  /\ cache' = <<>> /\ flags' = <<>> /\ addable' = <<>> /\ added' = 0
  /\ committed' = <<>>
  /\ launch_attempted' = FALSE /\ exit' = "none" /\ llm_log' = <<>>
  /\ last_invoke' = NoInvoke /\ sync_calls' = <<>> /\ popen_count' = 0
  /\ outcome' = NoOutcome
  /\ store0' = store /\ snapshot0' = snapshot
  /\ UNCHANGED << inputs, store, snapshot >>

\* the longest inbox explored over several runs
MaxReplayInbox == 2

\* the collaborators explored over several runs: each has two answers
ReplayPools ==
  { {LLMRaise, LLMJson(R_print, W_pt, T_xy_space, T_u)},
    {LLMJson(R_print, W_pt, T_xy_space, T_u), LLMJson(R_print, W_pt, T_xy, T_u)},
    {LLMJson(R_bigdate, W_pt, T_xy_space, T_u),
     LLMJson(<<" ">> \o R_Capital, W_pt, T_xy_bold, T_u)} }

InitReplay ==
  /\ Start(ReplayPools)
  /\ Len(inbox) <= MaxReplayInbox /\ snapshot = NoFile /\ ~dry_run /\ ~strict

NextReplay == Step \/ NextRun

\* runs of the pipeline in sequence over the same inbox
SpecReplay == InitReplay /\ [][NextReplay]_vars

\* the anki_invoke calls a client process makes
MaxCalls == 3

AnkiActions == {"findNotes", "notesInfo", "canAddNotes", "addNotes", "gui.refreshAll"}

InitClient ==
  /\ inbox = <<>> /\ store = NoFile /\ snapshot = NoFile
  /\ dry_run = FALSE /\ limit = 0 /\ strict = FALSE /\ llm_pool = LLMPool
  /\ Fresh
  /\ store0 = store /\ snapshot0 = snapshot
  /\ run = 1 /\ prev = NoPrev /\ calls = <<>> /\ inbox_dir = NoDir /\ other = <<>>

\* one anki_invoke call, whatever the earlier calls did
Invoke ==
  /\ pc = "start" /\ Len(sync_calls) < MaxCalls
  /\ \E action \in AnkiActions, net \in NetScripts :
       LET inv == anki_invoke(action, launch_attempted, net)
       IN Invoked(inv) /\ last_invoke' = inv
  /\ UNCHANGED << inputs, store, snapshot, pc, todo, idx, new_rows, failures,
                  sync_locals, exit, llm_log, outcome, store0, snapshot0, run, prev >>

SpecClient == InitClient /\ [][Invoke]_vars

\* ---- append_rows, _detect_csv_format and the two loaders alone

\* the header of a file that carries the old column order
LEGACY_HEADER == ToOldOrder(HEADER)

\* rows as they lie in a store written before this run
S_cur == <<R_print, W_pt, T_xy_br, T_u, D_old>>
S_old == <<D_old, W_pt, R_bigdate, T_xy_space, T_u>>

\* no store: the file is missing, or it has size 0
EmptyStores == { NoFile, [exists |-> TRUE, lines |-> <<>>] }

\* stores whose rows are all in the current order: a header alone, a header and
\* a row, two rows without header, a blank line before the header
CurrentStores ==
  { [exists |-> TRUE, lines |-> <<HEADER>>],
    [exists |-> TRUE, lines |-> <<HEADER, S_cur>>],
    [exists |-> TRUE, lines |-> << <<R_Capital, W_pt, T_xy, T_u, D_old>>,
                                   <<R_bigdate, W_pt, T_xy_mid, T_u, D_old>> >>],
    [exists |-> TRUE, lines |-> << <<>>, HEADER, S_cur >>] }

\* stores whose rows are all in the old order: a row without header, a header
\* and a row, a blank line before the row
LegacyStores ==
  { [exists |-> TRUE, lines |-> <<S_old>>],
    [exists |-> TRUE, lines |-> <<LEGACY_HEADER, S_old>>],
    [exists |-> TRUE, lines |-> << <<>>, S_old >>] }

FilePool == EmptyStores \cup CurrentStores \cup LegacyStores

\* rows in the shape main builds: [word_en, word_pt, sentence_pt, sentence_en,
\* date_added]
CardPool ==
  { <<R_print, W_pt, T_xy_space, T_u, TODAY>>,
    <<R_Capital, W_pt, T_xy_br, T_u, TODAY>>,
    <<R_bigdate, W_pt, T_xy, T_u, TODAY>> }

\* the most rows one append_rows call is given, and the most rows appended
MaxBatch == 2
MaxAppended == 3

InitStore ==
  /\ inbox = <<>> /\ store \in FilePool /\ snapshot = NoFile
  /\ dry_run = FALSE /\ limit = 0 /\ strict = FALSE /\ llm_pool = LLMPool
  /\ Fresh
  /\ store0 = store /\ snapshot0 = snapshot
  /\ run = 1 /\ prev = NoPrev /\ calls = <<>> /\ inbox_dir = NoDir /\ other = <<>>

\* one append_rows(master_csv, rows) call; new_rows collects the rows given
AppendRows ==
  /\ pc = "start"
  /\ \E rows \in SeqsUpTo(CardPool, MaxBatch) \ {<<>>} :
       /\ Len(new_rows) + Len(rows) <= MaxAppended
       /\ store' = append_rows(store, rows)
       /\ new_rows' = new_rows \o rows
  /\ UNCHANGED << inputs, snapshot, pc, todo, idx, failures, sync_locals,
                  launch_attempted, exit, llm_log, last_invoke, sync_calls,
                  popen_count, outcome, store0, snapshot0, run, prev >>

SpecStore == InitStore /\ [][AppendRows]_vars

\* ---- a run with MOCK_LLM=1, from the inbox file

\* a JSON value: t is "str" (v its text), "list" (v its items) or "other".
\* A JSON object is a record of such values.  A line of the inbox is what
\* json.loads makes of it: an object, a value that is no object, or
\* J("blank", <<>>) for an empty line and J("malformed", <<>>) for a
\* JSONDecodeError
J(t, v) == [t |-> t, v |-> v]

\* read_quick_entries, lines 248-251: "entries" in obj, obj["entries"] or
\* obj.get raise a TypeError or an AttributeError on a value that is no object
read_raises(lines) ==
  \E k \in 1..Len(lines) :
    "t" \in DOMAIN lines[k] /\ lines[k].t \notin {"blank", "malformed"}

\* re.split(r"[,\n;]+", item), each part stripped, the empty parts dropped
RECURSIVE SplitEntries(_, _)
SplitEntries(item, cur) ==
  LET part == IF Strip(cur) = <<>> THEN <<>> ELSE <<Strip(cur)>>
  IN IF item = <<>> THEN part
     ELSE IF Head(item) \in {",", "\n", ";"}
          THEN part \o SplitEntries(Tail(item), <<>>)
          ELSE SplitEntries(Tail(item), Append(cur, Head(item)))

\* the payload of one object of the inbox, an "other" value when it has none
Payload(obj) ==
  IF "entries" \in DOMAIN obj THEN obj["entries"]
  ELSE IF "word" \in DOMAIN obj /\ obj["word"].t = "str" THEN obj["word"]
  ELSE LET keys == <<"text", "entry", "term", "phrase">>
           hits == {i \in 1..4 : /\ keys[i] \in DOMAIN obj
                                 /\ obj[keys[i]].t \in {"str", "list"}}
       IN IF hits = {} THEN J("other", <<>>)
          ELSE obj[keys[CHOOSE i \in hits : \A j \in hits : i <= j]]

\* read_quick_entries where it returns: empty and malformed lines passed
\* over, then the strings of each payload (itself, or the strings among the
\* items of a list), split
RECURSIVE read_quick_entries(_)
read_quick_entries(objs) ==
  LET RECURSIVE StrItems(_)
      StrItems(l) ==
        IF l = <<>> THEN <<>>
        ELSE (IF Head(l).t = "str" THEN <<Head(l).v>> ELSE <<>>) \o StrItems(Tail(l))
      RECURSIVE SplitAll(_)
      SplitAll(values) ==
        IF values = <<>> THEN <<>>
        ELSE SplitEntries(Head(values), <<>>) \o SplitAll(Tail(values))
  IN IF objs = <<>> THEN <<>>
     ELSE IF "t" \in DOMAIN Head(objs) THEN read_quick_entries(Tail(objs))
     ELSE LET payload == Payload(Head(objs))
              values == CASE payload.t = "str" -> <<payload.v>>
                          [] payload.t = "list" -> StrItems(payload.v)
                          [] OTHER -> <<>>
          IN SplitAll(values) \o read_quick_entries(Tail(objs))

R_focus == <<"f","o","c","u","s">>
R_energy == <<"e","n","e","r","g","y">>

\* ask_llm, lines 784-787: the user message
UserPrompt(word_en) ==
  <<"P","r","o","d","u","c","e"," ","O","N","L","Y"," ","t","h","e"," ",
    "s","i","n","g","l","e"," ","J","S","O","N"," ","o","b","j","e","c","t"," ",
    "d","e","s","c","r","i","b","e","d"," ","a","b","o","v","e",".","\n",
    "T","a","r","g","e","t",":"," ">> \o Strip(word_en)

\* re.search(r"Target word:\s*(.+)", last): group 1 stripped of white space and
\* of quotes, "TEST" without a match.  \s* gives white space back when nothing
\* else is left for (.+) on a line.
MockWord(last) ==
  LET RECURSIVE AfterFirst(_, _)
      AfterFirst(s, pat) ==
        IF Len(s) < Len(pat) THEN <<FALSE, <<>>>>
        ELSE IF StartsWith(s, pat) THEN <<TRUE, SubSeq(s, Len(pat) + 1, Len(s))>>
        ELSE AfterFirst(Tail(s), pat)
      RECURSIVE UpToNewline(_)
      UpToNewline(s) ==
        IF s = <<>> \/ Head(s) = "\n" THEN <<>>
        ELSE <<Head(s)>> \o UpToNewline(Tail(s))
      RECURSIVE SpaceTail(_)
      SpaceTail(s) ==
        IF s = <<>> \/ ~IsSpace(s[Len(s)]) THEN <<>>
        ELSE Append(SpaceTail(SubSeq(s, 1, Len(s) - 1)), s[Len(s)])
      RECURSIVE StripQuote(_)
      StripQuote(s) ==
        IF s # <<>> /\ Head(s) = "\"" THEN StripQuote(Tail(s))
        ELSE IF s # <<>> /\ s[Len(s)] = "\""
             THEN StripQuote(SubSeq(s, 1, Len(s) - 1))
        ELSE s
      found == AfterFirst(last, <<"T","a","r","g","e","t"," ","w","o","r","d",":">>)
      rest  == found[2]
      lead  == SubSeq(rest, 1, Len(rest) - Len(LStrip(rest)))
      group == IF LStrip(rest) # <<>> THEN UpToNewline(LStrip(rest))
               ELSE UpToNewline(SpaceTail(lead))
  IN IF ~found[1] \/ group = <<>> THEN <<"T","E","S","T">>
     ELSE StripQuote(Strip(group))

\* _mock: the content it answers with.  The fixed words of its two sentences
\* are shortened.
_mock(last) ==
  LET w == MockWord(last)
  IN LLMJson(w, w, <<"f","r","a","s","e"," ">> \o w, <<"t","e","s","t"," ">> \o w)

\* the objects of the inbox files explored
QuickFiles ==
  { << [entries |-> J("str", R_focus \o <<",", " ">> \o R_energy)] >>,
    << [entries |-> J("list", << J("str", R_focus \o <<",", " ">> \o R_energy) >>)] >>,
    << [word |-> J("str", R_focus)] >>,
    << [entries |-> J("other", <<>>)],
       [text |-> J("str", R_energy \o <<";", "\n">>)] >>,
    << [entries |-> J("list", << J("str", R_focus), J("other", <<>>),
          J("str", <<"T","a","r","g","e","t"," ","w","o","r","d",":">> \o R_energy) >>)] >> }

InitMock ==
  /\ inbox \in {read_quick_entries(f) : f \in QuickFiles}
  /\ store \in {NoFile, [exists |-> TRUE, lines |-> <<HEADER, S_cur>>]}
  /\ snapshot \in SnapshotPool
  /\ \E a \in ArgPool : dry_run = a[1] /\ limit = a[2] /\ strict = a[3]
  /\ llm_pool = {}
  /\ Fresh
  /\ store0 = store /\ snapshot0 = snapshot
  /\ run = 1 /\ prev = NoPrev /\ calls = <<>> /\ inbox_dir = NoDir /\ other = <<>>

\* main, lines 977-1008, with chat answering through _mock
EnrichMock ==
  /\ pc = "enrich" /\ idx <= Len(todo)
  /\ LET resp == _mock(UserPrompt(todo[idx][1]))
         res == ask_llm(resp)
     IN /\ llm_log' = Append(llm_log, <<todo[idx][1], resp>>)
        /\ IF res[1]
           THEN /\ new_rows' = Append(new_rows, Append(res[2], TODAY))
                /\ failures' = failures
           ELSE /\ failures' = Append(failures, todo[idx][1])
                /\ new_rows' = new_rows
  /\ idx' = idx + 1
  /\ UNCHANGED << inputs, store, snapshot, pc, todo, sync_locals, launch_attempted,
                  exit, last_invoke, sync_calls, popen_count, outcome, store0,
                  snapshot0, run, prev >>

NextMock ==
  \/ Prepare \/ EnrichMock \/ Dedup
  \/ PersistOk \/ PersistAppendRaises \/ PersistSnapshotRaises
  \/ SyncFind \/ SyncInfo \/ SyncCanAdd \/ SyncAddNotes \/ Refresh

SpecMock == InitMock /\ [][NextMock]_vars

\* ---- read_quick_entries and _open_with_retry alone

\* nothing has run
InitAlone ==
  /\ inbox = <<>> /\ store = NoFile /\ snapshot = NoFile
  /\ dry_run = FALSE /\ limit = 0 /\ strict = FALSE /\ llm_pool = {}
  /\ Fresh
  /\ store0 = store /\ snapshot0 = snapshot
  /\ run = 1 /\ prev = NoPrev /\ calls = <<>> /\ inbox_dir = NoDir /\ other = <<>>

\* the longest inbox file read, in lines
MaxLines == 3

\* read_quick_entries on an inbox file of up to MaxLines lines: inbox is what
\* it returns, calls the lines it was given; an exception leaves main
ReadQuick ==
  LET LinePool ==
        { J("blank", <<>>), J("malformed", <<>>),
          [entries |-> J("str", <<"a",","," ","b",";","\n"," ">>)],
          [entries |-> J("list", << J("str", <<" ","c"," ">>), J("other", <<>>),
                                    J("str", <<" ">>) >>)],
          [entries |-> J("other", <<>>), word |-> J("str", <<"d">>)],
          [word |-> J("str", <<"d">>), text |-> J("str", <<"e">>)],
          [word |-> J("list", << J("str", <<"d">>) >>), term |-> J("other", <<>>),
           phrase |-> J("list", << J("str", <<"e",",","f">>) >>)],
          [other |-> J("str", <<"g">>)],
          J("str", <<"d">>), J("other", <<>>),
          J("list", << J("str", <<"d">>) >>) }
  IN /\ pc = "start"
     /\ \E lines \in SeqsUpTo(LinePool, MaxLines) :
          /\ calls' = <<lines>>
          /\ IF read_raises(lines)
             THEN pc' = "raised" /\ exit' = 1 /\ inbox' = inbox
             ELSE pc' = "read" /\ exit' = exit /\ inbox' = read_quick_entries(lines)
     /\ UNCHANGED << dry_run, limit, strict, llm_pool, inbox_dir, store, snapshot,
                     todo, idx, new_rows, failures, sync_locals, launch_attempted,
                     llm_log, last_invoke, sync_calls, popen_count, outcome, store0,
                     snapshot0, run, prev, other >>

SpecRead == InitAlone /\ [][ReadQuick]_vars

\* _open_with_retry: the default of its parameter tries
tries == 8

\* OpenAttempt with every OSError taken for a busy file
OpenAttemptRetriesAll ==
  /\ pc = "start" /\ Len(calls) < tries
  /\ \E err \in {"none", "EDEADLK", "EBUSY", "EAGAIN", "EACCES"} :
       /\ calls' = Append(calls, [errno |-> err,
                                  slept |-> IF err # "none" THEN 2 ^ Len(calls) ELSE 0])
       /\ pc' = IF err = "none" THEN "opened"
                ELSE IF Len(calls) + 1 = tries THEN "locked" ELSE "start"
  /\ UNCHANGED << inbox, dry_run, limit, strict, llm_pool, inbox_dir, store, snapshot,
                  todo, idx, new_rows, failures, sync_locals, launch_attempted, exit,
                  llm_log, last_invoke, sync_calls, popen_count, outcome, store0,
                  snapshot0, run, prev, other >>

\* _open_with_retry, one pass of its loop: path.open returns or raises an
\* OSError; calls keeps, of each attempt, the errno (none when the file was
\* opened) and the sleep that followed, in units of base seconds.  The
\* RuntimeError of line 229 is raised when the last pass was busy too.
OpenAttempt ==
  /\ pc = "start" /\ Len(calls) < tries
  /\ \E err \in {"none", "EDEADLK", "EBUSY", "EAGAIN", "EACCES"} :
       LET busy == err \in {"EDEADLK", "EBUSY", "EAGAIN"}
       IN /\ calls' = Append(calls, [errno |-> err,
                                     slept |-> IF busy THEN 2 ^ Len(calls) ELSE 0])
          /\ pc' = IF err = "none" THEN "opened"
                   ELSE IF ~busy THEN "oserror"
                   ELSE IF Len(calls) + 1 = tries THEN "locked" ELSE "start"
  /\ UNCHANGED << inbox, dry_run, limit, strict, llm_pool, inbox_dir, store, snapshot,
                  todo, idx, new_rows, failures, sync_locals, launch_attempted, exit,
                  llm_log, last_invoke, sync_calls, popen_count, outcome, store0,
                  snapshot0, run, prev, other >>

SpecOpen == InitAlone /\ [][OpenAttempt]_vars

\* ---- extract_lemma alone

\* the raw entries explored, with those of the inbox pool
LemmaRaws ==
  RawPool \cup
  {
    <<".",".",".">>,   \* a tokenless entry
    <<" "," ">>,   \* blank
    <<"ldquo","p","r","i","n","t","rdquo">>,   \* quoted
    <<"I"," ","h","a","v","e"," ","t","o"," ","p","r","i","n","t"," ","t","h","i","s"," ","p","a","g","e",".">>,   \* to-VERB before phrase-extended
    <<"w","a","n","t"," ","t","o"," ","g","o"," ","n","o","w">>,   \* to-VERB in four tokens
    <<"nbsp","w","e"," ","k","e","e","p"," ","t","h","e"," "," ","b","i","g"," ","d","a","t","e"," ",".">>,   \* phrase-extended, to be cleaned
    <<"p","r","i","n","t"," ","t","h","i","s"," ","p","a","g","e"," ","n","o","w">>,   \* content-print
    <<"k","e","e","p"," ","t","h","e"," ","b","i","g"," ","d","a","t","e">>,   \* content-longest, a tie
    <<"T","h","i","s"," ","i","s"," ","t","h","e"," ","p","a","g","e">>,   \* fallback-top3
    <<"a"," ","b"," ","c"," ","d"," ","e"," ","f"," ","g"," ","h"," ","d","a","t","e">>,   \* nine tokens
    <<"p","l","e","a","s","e"," ","T","o"," ","p","r","i","n","t"," ","i","t"," ","n","o","w">>    \* capital To is no match
  }

\* the longest sequence of raw entries normalised
MaxLemmaInbox == 2

InitLemma ==
  /\ inbox \in SeqsUpTo(LemmaRaws, MaxLemmaInbox) /\ store = NoFile /\ snapshot = NoFile
  /\ dry_run = FALSE /\ limit = 0 /\ strict \in BOOLEAN /\ llm_pool = LLMPool
  /\ Fresh
  /\ store0 = store /\ snapshot0 = snapshot
  /\ run = 1 /\ prev = NoPrev /\ calls = <<>> /\ inbox_dir = NoDir /\ other = <<>>

\* main, lines 926-939: one pass of the normalisation loop; todo collects the
\* candidates, calls what extract_lemma was given and what it returned
ExtractOne ==
  /\ pc = "start" /\ idx <= Len(inbox)
  /\ calls' = Append(calls, <<inbox[idx], extract_lemma(inbox[idx])>>)
  /\ todo' = todo \o Normalize(<<inbox[idx]>>, strict)
  /\ idx' = idx + 1
  /\ UNCHANGED << inbox, dry_run, limit, strict, llm_pool, store, snapshot, pc,
                  new_rows, failures, sync_locals, launch_attempted, exit, llm_log,
                  last_invoke, sync_calls, popen_count, outcome, store0, snapshot0,
                  run, prev, inbox_dir, other >>

SpecLemma == InitLemma /\ [][ExtractOne]_vars

\* ---- the enrichment of one candidate, and what it persists

\* what the object may hold under one key: nothing, blanks, a text, a text
\* with blanks around, null
FieldPool == { <<>>, <<" ">>, T_u, <<" ", "x", "\n", " ", "y", " ">>, JNull }

EnrichPool ==
  {LLMRaise} \cup
  { LLMJson(we, wp, sp, se) : we \in FieldPool, wp \in FieldPool,
                              sp \in FieldPool, se \in FieldPool }

InitEnrich ==
  /\ inbox = <<R_print>>
  /\ store \in {NoFile, [exists |-> TRUE, lines |-> <<S_old>>]}
  /\ snapshot = NoFile
  /\ dry_run = FALSE /\ limit = 0 /\ strict = FALSE /\ llm_pool = EnrichPool
  /\ Fresh
  /\ store0 = store /\ snapshot0 = snapshot
  /\ run = 1 /\ prev = NoPrev /\ calls = <<>> /\ inbox_dir = NoDir /\ other = <<>>

NextEnrich == Prepare \/ Enrich \/ AllFailed \/ Dedup \/ PersistOk

\* main up to the end of persistence, for one candidate and any answer
SpecEnrich == InitEnrich /\ [][NextEnrich]_vars

\* a run of main that starts from a store in the old column order: a row
\* without header, a header and a row, a blank line before the row
InitLegacy ==
  /\ inbox \in Inboxes
  /\ store \in LegacyStores
  /\ snapshot = NoFile
  /\ dry_run = FALSE /\ limit = 0 /\ strict = FALSE /\ llm_pool = LLMPool
  /\ Fresh
  /\ store0 = store /\ snapshot0 = snapshot
  /\ run = 1 /\ prev = NoPrev /\ calls = <<>> /\ inbox_dir = NoDir /\ other = <<>>

\* main up to the end of persistence, over a legacy store
SpecLegacy == InitLegacy /\ [][NextEnrich]_vars

Range(f) == {f[k] : k \in DOMAIN f}

\* ---- two processes running main over the same inbox and store

\* what a process running main holds of its own
Locals ==
  [pc |-> pc, todo |-> todo, idx |-> idx, new_rows |-> new_rows, failures
   |-> failures, row_idx |-> row_idx, notes |-> notes, seen_pairs |->
   seen_pairs, cache |-> cache, flags |-> flags, addable |-> addable, added
   |-> added, committed |-> committed, launch_attempted |->
   launch_attempted, exit |-> exit, llm_log |-> llm_log, last_invoke |->
   last_invoke, sync_calls |-> sync_calls, popen_count |-> popen_count,
   outcome |-> outcome, store0 |-> store0, snapshot0 |-> snapshot0]

\* two processes started on one inbox and store, with a collaborator that has
\* one answer; serial: the caller starts the second when the first has exited.
\* The variables of main are those of the process that takes steps, other
\* holds the process that waits, which has not taken a step yet.
InitTwo ==
  /\ inbox \in {<<R_print>>, <<R_bigdate>>, <<R_bigdate, R_print>>}
  /\ store \in {NoFile,
                 [exists |-> TRUE, lines |-> <<HEADER, <<R_print, W_pt, T_xy_br, T_u, D_old>> >>],
                 [exists |-> TRUE, lines |-> << <<D_old, W_pt, R_bigdate, T_xy_br, T_u>> >>]}
  /\ snapshot = NoFile
  /\ dry_run = FALSE /\ limit = 0 /\ strict = FALSE
  /\ llm_pool \in { {LLMJson(R_print, W_pt, T_xy_space, T_u)},
                     {LLMJson(R_bigdate, W_pt, T_xy_space, T_u)} }
  /\ Fresh
  /\ store0 = store /\ snapshot0 = snapshot
  /\ run = 1 /\ prev = NoPrev /\ calls = <<>> /\ inbox_dir = NoDir
  /\ \E serial \in BOOLEAN : other = [serial |-> serial, locals |-> Locals]

\* the scheduler lets the other process take the next steps; serialized, this
\* happens once, when the first process has exited.  A process that takes its
\* first step finds the store and the snapshot as they are by then.
Switch ==
  /\ other # <<>>
  /\ other.serial => (pc = "done" /\ other.locals.pc = "start")
  /\ pc' = other.locals.pc /\ todo' = other.locals.todo /\ idx' = other.locals.idx
  /\ new_rows' = other.locals.new_rows /\ failures' = other.locals.failures /\ row_idx' = other.locals.row_idx
  /\ notes' = other.locals.notes /\ seen_pairs' = other.locals.seen_pairs /\ cache' = other.locals.cache
  /\ flags' = other.locals.flags /\ addable' = other.locals.addable /\ added' = other.locals.added
  /\ committed' = other.locals.committed /\ launch_attempted' = other.locals.launch_attempted /\ exit' = other.locals.exit
  /\ llm_log' = other.locals.llm_log /\ last_invoke' = other.locals.last_invoke /\ sync_calls' = other.locals.sync_calls
  /\ popen_count' = other.locals.popen_count /\ outcome' = other.locals.outcome
  /\ store0' = IF other.locals.pc = "start" THEN store ELSE other.locals.store0
  /\ snapshot0' = IF other.locals.pc = "start" THEN snapshot ELSE other.locals.snapshot0
  /\ other' = [other EXCEPT !.locals = Locals]
  /\ UNCHANGED << inbox, dry_run, limit, strict, llm_pool, calls, inbox_dir, store,
                  snapshot, run, prev >>

NextTwo ==
  \/ Prepare \/ Enrich \/ Dedup \/ PersistOk
  \/ SyncFind \/ SyncInfo \/ SyncCanAdd \/ SyncAddNotes \/ Refresh
  \/ Switch

SpecTwo == InitTwo /\ [][NextTwo]_vars

\* ---- merge_quick.py: the capture fragments merged into quick.jsonl

\* U+2028 LINE SEPARATOR as one character: a line boundary to str.splitlines,
\* an ordinary character to the iteration over an open file
LS == "ls"

\* the pieces of a text between the boundaries seps, none after a final boundary
SplitAt(text, seps) ==
  LET RECURSIVE Go(_, _, _)
      Go(k, cur, acc) ==
        IF k > Len(text) THEN (IF cur = <<>> THEN acc ELSE Append(acc, cur))
        ELSE IF text[k] \in seps THEN Go(k + 1, <<>>, Append(acc, cur))
        ELSE Go(k + 1, Append(cur, text[k]), acc)
  IN Go(1, <<>>, <<>>)

\* file names are sequences of characters
TARGET == <<"q","u","i","c","k",".","j","s","o","n","l">>

\* lines 9-10: the name matches quick*.json or quick*.jsonl, is not the
\* target's and does not end in .done
IsFrag(name) ==
  LET EndsWith(pat) == Len(name) >= Len(pat)
                         /\ SubSeq(name, Len(name) - Len(pat) + 1, Len(name)) = pat
  IN /\ StartsWith(name, <<"q","u","i","c","k">>)
     /\ (EndsWith(<<".","j","s","o","n">>) \/ EndsWith(<<".","j","s","o","n","l">>))
     /\ name # TARGET
     /\ ~EndsWith(<<".","d","o","n","e">>)

\* the names of the pool, in the ascending order sorted() gives them:
\* notes.json, quick-1.json.20261030-090000.done, quick-10.jsonl, quick-2.json,
\* quick.json, quick.jsonl
FragNames == << <<"n","o","t","e","s",".","j","s","o","n">>,
               <<"q","u","i","c","k","-","1",".","j","s","o","n",".","2","0","2","6","1","0","3","0","-","0","9","0","0","0","0",".","d","o","n","e">>,
               <<"q","u","i","c","k","-","1","0",".","j","s","o","n","l">>,
               <<"q","u","i","c","k","-","2",".","j","s","o","n">>,
               <<"q","u","i","c","k",".","j","s","o","n">>,
               TARGET >>

\* lines 15-36: the text written back to the target, from the target and the
\* fragments found in dir
MergedText(dir) ==
  LET unique == SelectSeq(FragNames, LAMBDA n : n \in DOMAIN dir /\ IsFrag(n))
      RECURSIVE AddLines(_, _)
      AddLines(lines, rest) ==
        IF rest = <<>> THEN lines
        ELSE LET s == Strip(Head(rest))
             IN IF s # <<>> /\ \A k \in 1..Len(lines) : lines[k] # s
                THEN AddLines(Append(lines, s), Tail(rest))
                ELSE AddLines(lines, Tail(rest))
      RECURSIVE FromFrags(_, _)
      FromFrags(lines, k) ==
        IF k > Len(unique) THEN lines
        ELSE FromFrags(AddLines(lines, SplitAt(dir[unique[k]], {"\n", LS})), k + 1)
      written(lines) ==
        Join(lines, <<"\n">>) \o (IF lines # <<>> THEN <<"\n">> ELSE <<>>)
      existing == IF TARGET \in DOMAIN dir
                  THEN AddLines(<<>>, SplitAt(dir[TARGET], {"\n", LS})) ELSE <<>>
  IN written(FromFrags(existing, 1))

\* any inbox directory: the target and the fragments, each absent or holding
\* one of the texts; a file the patterns do not match and a fragment archived
\* earlier, each absent or holding lines the others lack
InitMerge ==
  LET TextPool == { <<>>,
                    <<"a","\n","b","\n">>,
                    <<" ","b"," ","\n","\n","c","\n">>,
                    <<"c","\n","a">>,
                    <<"a","\n","a","\n">>,
                    <<"a",LS,"b","\n">> }
  IN /\ inbox = <<>> /\ store = NoFile /\ snapshot = NoFile
     /\ dry_run = FALSE /\ limit = 0 /\ strict = FALSE /\ llm_pool = {}
     /\ Fresh
     /\ store0 = store /\ snapshot0 = snapshot
     /\ run = 1 /\ prev = NoPrev /\ calls = <<>> /\ other = <<>>
     /\ \E D \in SUBSET Range(FragNames) :
          /\ inbox_dir \in [D -> TextPool \cup {<<"d","\n">>}]
          /\ \A n \in D : (inbox_dir[n] = <<"d","\n">>) <=> (~IsFrag(n) /\ n # TARGET)

\* MergeQuick without lines 38-41: the fragments keep their names
MergeQuickNoArchive ==
  /\ pc \in {"start", "merged"} /\ \E n \in DOMAIN inbox_dir : IsFrag(n)
  /\ calls' = <<inbox_dir>>
  /\ inbox_dir' = [n \in (DOMAIN inbox_dir) \cup {TARGET} |->
                     IF n = TARGET THEN MergedText(inbox_dir) ELSE inbox_dir[n]]
  /\ pc' = "merged"
  /\ UNCHANGED << inbox, dry_run, limit, strict, llm_pool, store, snapshot, todo,
                  idx, new_rows, failures, sync_locals, launch_attempted, exit,
                  llm_log, last_invoke, sync_calls, popen_count, outcome, store0,
                  snapshot0, run, prev, other >>

\* the script with a fragment to merge: the target rewritten, each fragment
\* renamed; calls keeps the directory the script found
MergeQuick ==
  LET frags == {n \in DOMAIN inbox_dir : IsFrag(n)}
      done(n) == n \o <<".","2","0","2","6","1","0","3","1","-","1","2","0","0","0","0",".","d","o","n","e">>
      left == ((DOMAIN inbox_dir) \ frags) \cup {TARGET}
  IN /\ pc \in {"start", "merged"} /\ frags # {}
     /\ calls' = <<inbox_dir>>
     /\ inbox_dir' = [n \in left \cup {done(m) : m \in frags} |->
                        IF n = TARGET THEN MergedText(inbox_dir)
                        ELSE IF n \in left THEN inbox_dir[n]
                        ELSE inbox_dir[CHOOSE m \in frags : done(m) = n]]
     /\ pc' = "merged"
     /\ UNCHANGED << inbox, dry_run, limit, strict, llm_pool, store, snapshot, todo,
                     idx, new_rows, failures, sync_locals, launch_attempted, exit,
                     llm_log, last_invoke, sync_calls, popen_count, outcome, store0,
                     snapshot0, run, prev, other >>

\* lines 11-12: no fragment, the script exits and writes nothing
MergeNothing ==
  /\ pc \in {"start", "merged"} /\ \A n \in DOMAIN inbox_dir : ~IsFrag(n)
  /\ pc' = "nothing" /\ exit' = 0
  /\ UNCHANGED << inputs, store, snapshot, todo, idx, new_rows, failures,
                  sync_locals, launch_attempted, llm_log, last_invoke, sync_calls,
                  popen_count, outcome, store0, snapshot0, run, prev >>

\* the script stopped by an OSError, which nothing catches: while it reads
\* (lines 23, 30), nothing is written; in write_text (line 36), after the
\* target was opened for writing and so emptied; in the rename of the k-th
\* fragment (line 41), after the target was rewritten and the fragments before
\* the k-th were renamed
MergeFails ==
  LET unique == SelectSeq(FragNames, LAMBDA n : n \in DOMAIN inbox_dir /\ IsFrag(n))
      done(n) == n \o <<".","2","0","2","6","1","0","3","1","-","1","2","0","0","0","0",".","d","o","n","e">>
  IN /\ pc = "start" /\ unique # <<>>
     /\ calls' = <<inbox_dir>>
     /\ \/ inbox_dir' = inbox_dir
        \/ inbox_dir' = [n \in (DOMAIN inbox_dir) \cup {TARGET} |->
                           IF n = TARGET THEN <<>> ELSE inbox_dir[n]]
        \/ \E k \in 1..Len(unique) :
             LET gone == {unique[j] : j \in 1..(k - 1)}
                 left == ((DOMAIN inbox_dir) \ gone) \cup {TARGET}
             IN inbox_dir' = [n \in left \cup {done(m) : m \in gone} |->
                                IF n = TARGET THEN MergedText(inbox_dir)
                                ELSE IF n \in left THEN inbox_dir[n]
                                ELSE inbox_dir[CHOOSE m \in gone : done(m) = n]]
     /\ pc' = "failed" /\ exit' = 1
     /\ UNCHANGED << inbox, dry_run, limit, strict, llm_pool, store, snapshot, todo,
                     idx, new_rows, failures, sync_locals, launch_attempted,
                     llm_log, last_invoke, sync_calls, popen_count, outcome, store0,
                     snapshot0, run, prev, other >>

NextMerge == MergeQuick \/ MergeNothing \/ MergeFails

SpecMerge == InitMerge /\ [][NextMerge]_vars

\* ------------------------------------------------------------ properties

\* the lines this run has added to the store, less the header of a new file
Appended ==
  IF IsEmptyFile(store0)
  THEN (IF store.lines = <<>> THEN <<>> ELSE Tail(store.lines))
  ELSE SubSeq(store.lines, Len(store0.lines) + 1, Len(store.lines))

\* a row in the column order of the store this run started from
AsStored(row) ==
  IF _detect_csv_format(store0)[2] = "old" THEN ToOldOrder(row) ELSE row

\* the enrichment calls of this run: which succeeded, the row and the key of each
LogOk(k)  == ask_llm(llm_log[k][2])[1]
LogRow(k) == Append(ask_llm(llm_log[k][2])[2], TODAY)
LogKey(k) == _sentence_duplicate_key(LogRow(k)[1], LogRow(k)[3], LogRow(k)[4])
OkCalls   == {k \in DOMAIN llm_log : LogOk(k)}

\* the successful calls whose key is neither in the store the run started from
\* nor the key of an earlier successful call
Kept ==
  {k \in OkCalls :
     /\ LogKey(k) \notin load_existing_sentence_pairs(store0)
     /\ \A j \in OkCalls : j < k => LogKey(j) # LogKey(k)}

RECURSIVE KeptRowsFrom(_)
KeptRowsFrom(k) ==
  IF k > Len(llm_log) THEN <<>>
  ELSE (IF k \in Kept THEN <<LogRow(k)>> ELSE <<>>) \o KeptRowsFrom(k + 1)

KeptRows == KeptRowsFrom(1)
KeptStored == [k \in DOMAIN KeptRows |-> AsStored(KeptRows[k])]

PersistRaised == outcome.persist \in {"append raised", "snapshot raised"}
SyncRaised == outcome.sync = "raised"

\* ---- C1

\* C1 as stated: when a non-dry run has ended with exit code 0 and the pipeline
\* is run again on the same inbox against the store it left, the second run
\* appends no row.
C1_IdempotentAsStated ==
  (run = 2 /\ pc = "done" /\ prev.exit = 0) => Appended = <<>>

\* C1, amended: a run that follows a run whose store append did not raise, and
\* whose every enrichment call repeats a call of that run (same lemma, same
\* answer), appends no row to the store.
C1_Idempotent ==
  ( /\ run >= 2
    /\ prev.persist # "append raised"
    /\ \A k \in DOMAIN llm_log : llm_log[k] \in Range(prev.llm_log) )
  => Appended = <<>>

\* a second run has enriched its lemma again, got the answer of the first run,
\* and has completed persistence without a row
C1_Witness ==
  /\ run = 2 /\ pc = "done" /\ prev.persist = "ok" /\ outcome.persist = "ok"
  /\ OkCalls # {}
  /\ \A k \in DOMAIN llm_log : llm_log[k] \in Range(prev.llm_log)
  /\ Len(store0.lines) >= 2 /\ Appended = <<>>

\* ---- C2

\* C2: no sync call is made before the store append and the snapshot write have
\* both succeeded; a run whose persistence raised ends with exit code 1 and no
\* sync call; a run whose sync raised ends with exit code 1, and the store and
\* the snapshot still hold the rows of this run.
C2_PersistBeforeSync ==
  /\ sync_calls # <<>> =>
       /\ outcome.persist = "ok"
       /\ Appended = [k \in DOMAIN new_rows |-> AsStored(new_rows[k])]
       /\ snapshot = [exists |-> TRUE, lines |-> <<HEADER>> \o new_rows]
  /\ (pc = "done" /\ PersistRaised) => (exit = 1 /\ sync_calls = <<>>)
  /\ SyncRaised =>
       /\ pc = "done" /\ exit = 1
       /\ Appended = [k \in DOMAIN new_rows |-> AsStored(new_rows[k])]
       /\ snapshot = [exists |-> TRUE, lines |-> <<HEADER>> \o new_rows]

\* two rows were persisted and a sync call raised afterwards
C2_Witness ==
  /\ pc = "done" /\ SyncRaised /\ Len(Appended) = 2
  /\ Len(sync_calls) >= 2

\* ---- C3

PartialFailure ==
  pc = "done" /\ 0 < Len(failures) /\ Len(failures) < Len(todo)

\* C3 as stated: with k failures among n candidates, 0 < k < n, enrichment was
\* called once for each candidate, k failures are recorded, the n - k successes
\* are persisted and the run exits 0.
C3_PartialFailureAsStated ==
  PartialFailure =>
    /\ Len(llm_log) = Len(todo)
    /\ Len(failures) = Cardinality(DOMAIN llm_log \ OkCalls)
    /\ Len(Appended) = Len(todo) - Len(failures)
    /\ exit = 0

\* C3, amended: with k failures among n candidates, 0 < k < n, enrichment was
\* called once for each candidate in order and exactly the k failed lemmas are
\* recorded; a non-dry run whose persistence does not raise has appended the
\* successes that pass the sentence filter, a dry run has appended nothing; the
\* run exits 1 when persistence or sync raised and 0 otherwise.
C3_PartialFailure ==
  PartialFailure =>
    /\ Len(llm_log) = Len(todo)
    /\ \A k \in DOMAIN llm_log : llm_log[k][1] = todo[k][1]
    /\ Len(failures) = Cardinality(DOMAIN llm_log \ OkCalls)
    /\ Range(failures) = {llm_log[k][1] : k \in DOMAIN llm_log \ OkCalls}
    /\ (~dry_run /\ ~PersistRaised) => Appended = KeptStored
    /\ dry_run => store = store0
    /\ Len(Appended) <= Len(todo) - Len(failures)
    /\ exit = IF PersistRaised \/ SyncRaised THEN 1 ELSE 0

\* one of two candidates failed, the other was persisted, and the run exited 0
C3_Witness ==
  /\ PartialFailure /\ Len(todo) = 2 /\ Len(failures) = 1
  /\ ~dry_run /\ exit = 0 /\ Len(Appended) = 1

\* ---- C4

TotalFailure == pc = "done" /\ llm_log # <<>> /\ OkCalls = {}

\* C4 as stated: when every candidate failed enrichment the run returns 1, the
\* store is unchanged, no sync call was made and the snapshot is the header alone.
C4_TotalFailureAsStated ==
  TotalFailure =>
    /\ exit = 1 /\ store = store0 /\ sync_calls = <<>>
    /\ snapshot = [exists |-> TRUE, lines |-> <<HEADER>>]

\* C4, amended: when every candidate failed enrichment the run returns 1, the
\* store is unchanged and no sync call was made; a non-dry run has overwritten
\* the snapshot with the header alone, a dry run has left the snapshot as it was.
C4_TotalFailure ==
  TotalFailure =>
    /\ exit = 1 /\ store = store0 /\ sync_calls = <<>>
    /\ snapshot = IF dry_run THEN snapshot0
                  ELSE [exists |-> TRUE, lines |-> <<HEADER>>]

\* both candidates of a non-dry run failed, over a snapshot of an earlier import
C4_Witness ==
  /\ TotalFailure /\ ~dry_run /\ Len(llm_log) = 2
  /\ Len(snapshot0.lines) = 2 /\ Len(snapshot.lines) = 1

\* ---- C5

\* C5: whatever the anki_invoke calls of one process meet, the launch command is
\* started at most once, and once it was started, with or without an error,
\* the process remembers the attempt.
C5_LaunchAtMostOnce ==
  /\ popen_count <= 1
  /\ popen_count = 1 => launch_attempted
  /\ last_invoke.action # "none" =>
       (last_invoke.popen = 1 => ~last_invoke.before)

\* a call was refused after the launch command had been tried by an earlier call
C5_Witness ==
  /\ last_invoke.action # "none" /\ last_invoke.first = "refused"
  /\ last_invoke.before /\ last_invoke.popen = 0
  /\ popen_count = 1 /\ Len(sync_calls) >= 2

\* ---- C6

\* C6: an anki_invoke call makes one or two HTTP attempts; it makes the second
\* only when the first was refused and the launch was newly started by this
\* call; the call returns the response of a second attempt that succeeds and
\* fails when the second attempt fails; a first attempt that fails otherwise
\* than by a refused connection fails the call with no launch and no retry.
C6_RetryOnce ==
  last_invoke.action # "none" =>
    /\ last_invoke.attempts \in {1, 2}
    /\ last_invoke.attempts = 2 =>
         /\ last_invoke.first = "refused"
         /\ ~last_invoke.before /\ last_invoke.started /\ last_invoke.popen = 1
         /\ last_invoke.ok <=> last_invoke.second = "ok"
    /\ last_invoke.attempts = 1 => (last_invoke.ok <=> last_invoke.first = "ok")
    /\ last_invoke.first \in {"urlerror", "other"} =>
         /\ last_invoke.attempts = 1 /\ last_invoke.popen = 0
         /\ ~last_invoke.ok /\ last_invoke.attempted = last_invoke.before

\* a call retried after starting the service, and the retry failed
C6_Witness ==
  /\ last_invoke.action # "none" /\ last_invoke.attempts = 2
  /\ last_invoke.second \in {"refused", "urlerror", "other"} /\ ~last_invoke.ok

\* ---- C7

\* the positions of the notes whose canAddNotes flag is true
FlaggedIdx ==
  {k \in DOMAIN notes : k <= Len(flags) /\ flags[k]}

\* the m-th smallest of them
NthFlagged(m) ==
  CHOOSE k \in FlaggedIdx : Cardinality({j \in FlaggedIdx : j <= k}) = m

\* C7: the notes of the addNotes request are the notes whose canAddNotes flag
\* is true, in the order of the constructed notes, and no addNotes request is
\* made when no note is flagged.
C7_AddableOnly ==
  IF "addNotes" \in Range(sync_calls)
  THEN /\ committed # <<>>
       /\ Len(committed) = Cardinality(FlaggedIdx)
       /\ \A m \in DOMAIN committed : committed[m] = notes[NthFlagged(m)]
  ELSE committed = <<>>

\* of two notes only the second was flagged, and addNotes carried it alone
C7_Witness ==
  /\ "addNotes" \in Range(sync_calls)
  /\ Len(notes) = 2 /\ flags = <<FALSE, TRUE>>
  /\ committed = <<notes[2]>>

\* ---- C8

\* C8: main returns 0 or 1, and 1 exactly when every candidate failed
\* enrichment, or the store or snapshot write raised, or a sync call raised.
C8_ExitCodes ==
  pc = "done" =>
    /\ exit \in {0, 1}
    /\ exit = 1 <=>
         \/ (llm_log # <<>> /\ OkCalls = {})
         \/ PersistRaised
         \/ SyncRaised

\* a run with one failed candidate whose refresh request failed still exits 0
C8_Witness ==
  /\ pc = "done" /\ exit = 0
  /\ failures # <<>> /\ outcome.refresh = "raised"

\* ---- C9

\* the sentence filter has just run: a dry run ends there
Filtered == pc = "persist" \/ (pc = "done" /\ dry_run /\ llm_log # <<>>)

\* the rows kept for the word "print" with sentence_en "u" and sentence_pt in S
CardsOfWord(S) ==
  {k \in DOMAIN new_rows :
     /\ Lower(Strip(new_rows[k][1])) = R_print
     /\ new_rows[k][3] \in S /\ new_rows[k][4] = T_u}

\* "x y" written with a line break tag, and with bold tags, an entity and more
\* spaces
XYForms == {T_xy_space, T_xy_br, _clean_spaces(T_xy_bold)}

\* "xy" written with and without a tag inside the word
XYTagForms == {T_xy, T_xy_mid}

KeysDistinct ==
  /\ \A k \in DOMAIN new_rows :
       _sentence_duplicate_key(new_rows[k][1], new_rows[k][3], new_rows[k][4])
         \notin load_existing_sentence_pairs(store0)
  /\ \A j, k \in DOMAIN new_rows :
       j # k => _sentence_duplicate_key(new_rows[j][1], new_rows[j][3], new_rows[j][4])
                # _sentence_duplicate_key(new_rows[k][1], new_rows[k][3], new_rows[k][4])

DropIsNoError ==
  ( /\ pc = "done" /\ Len(new_rows) < Cardinality(OkCalls)
    /\ ~PersistRaised /\ ~SyncRaised ) => exit = 0

TodoKey(k) == Lower(Strip(todo[k][1]))

IsPhrase(key) == Contains(key, <<" ">>)

\* the word-level filter has just run: a run with nothing to enrich ends there
Prepared == llm_log = <<>> /\ pc \in {"enrich", "done"}

\* the lower-cased lemmas of the candidates of this run
CandidateKeys ==
  {Lower(Strip(c[1])) : c \in Range(Normalize(inbox, strict))}

\* C10: no single-token lemma of the stored word set is accepted for
\* enrichment or enriched; without --limit every multi-word lemma, and every
\* single-token lemma not stored, is accepted; no lower-cased lemma is accepted
\* twice.
C10_WordDedup ==
  /\ Prepared =>
       /\ \A k \in DOMAIN todo :
            ~IsPhrase(TodoKey(k)) => TodoKey(k) \notin load_existing_words(store0)
       /\ limit = 0 =>
            \A key \in CandidateKeys :
              (IsPhrase(key) \/ key \notin load_existing_words(store0))
                => \E k \in DOMAIN todo : TodoKey(k) = key
       /\ \A j, k \in DOMAIN todo : j # k => TodoKey(j) # TodoKey(k)
  /\ Len(llm_log) <= Len(todo)
  /\ \A k \in DOMAIN llm_log : llm_log[k][1] = todo[k][1]

\* "print" and "big date" are both stored; the run drops the word and accepts
\* the phrase
C10_Witness ==
  /\ Prepared /\ pc = "enrich" /\ inbox = <<R_print, R_bigdate>>
  /\ {W_print, R_bigdate} \subseteq load_existing_words(store0)
  /\ Len(todo) = 1 /\ TodoKey(1) = R_bigdate

\* ---- C11

\* the column order the rows of a store lie in
TrueOrder(f) == IF f \in LegacyStores THEN "old" ELSE "new"

InOrder(row, order) == IF order = "old" THEN ToOldOrder(row) ELSE row

\* the new_rows as they lie in the column order of the rows store0 holds
InStoreOrder == [k \in DOMAIN new_rows |-> InOrder(new_rows[k], TrueOrder(store0))]

\* C11: for a non-empty store whose rows are all in the current order or all
\* in the old order, with or without a header, after any sequence of appends
\* every row append_rows wrote is in the column order of the rows that were
\* already there.
C11_ColumnOrder ==
  (store0 \in CurrentStores \cup LegacyStores) => Appended = InStoreOrder

\* ---- C12

\* the lines of a file that are not blank, in order
RECURSIVE NonBlank(_)
NonBlank(ls) ==
  IF ls = <<>> THEN <<>>
  ELSE (IF Strip(LineText(Head(ls))) = <<>> THEN <<>> ELSE <<Head(ls)>>)
       \o NonBlank(Tail(ls))

\* the rule as the claim words it, on the first line that is not blank; a
\* line is taken for a header as the code takes it, when it names word_en
StatedFormat(f) ==
  LET ls == NonBlank(f.lines)
  IN IF ls = <<>> THEN "new"
     ELSE LET first_line == Strip(LineText(ls[1]))
          IN IF Contains(Lower(first_line), HEADER[1]) THEN "new"
             ELSE IF IsIsoDate(Strip(UpToComma(first_line))) THEN "old"
             ELSE "new"

\* C12: _detect_csv_format answers the current format when the first non-empty
\* line of the store is a header, else the old format when the first field of
\* the first data line is a YYYY-MM-DD date, else the current format.
C12_DetectionRule ==
  ~IsEmptyFile(store) => _detect_csv_format(store)[2] = StatedFormat(store)

\* ---- C13

\* every given row is found again by the two loaders
FoundAgain ==
  \A k \in DOMAIN new_rows :
     /\ Lower(new_rows[k][1]) \in load_existing_words(store)
     /\ _sentence_duplicate_key(new_rows[k][1], new_rows[k][3], new_rows[k][4])
          \in load_existing_sentence_pairs(store)

\* C13: after append_rows the loaders find the lower-cased word_en and the
\* sentence key of every appended row; a missing or empty store gets the
\* header first; in a store of old-order rows word_en is written to the third
\* column, and read from it.
C13_RoundTrip ==
  new_rows # <<>> =>
    /\ FoundAgain
    /\ IsEmptyFile(store0) => store.lines[1] = HEADER
    /\ TrueOrder(store0) = "old" =>
         /\ \A k \in DOMAIN new_rows : Appended[k][3] = new_rows[k][1]
         /\ Lower(S_old[3]) \in load_existing_words(store)

\* ---- C14

\* the data rows of the snapshot
SnapshotRows == IF snapshot.lines = <<>> THEN <<>> ELSE Tail(snapshot.lines)

\* a line of the store this run started from, back in the canonical order
Canonical(line) ==
  IF _detect_csv_format(store0)[2] = "old"
  THEN <<line[3], line[2], line[4], line[5], line[1]>>
  ELSE line

\* C14: when the store append and the snapshot write of a run have succeeded,
\* the snapshot is the header and then exactly the rows this run appended to
\* the store, in the same order, each in the canonical column order (a card of
\* this run, word_en first and today's date last) whatever the order of the
\* store, and no row of the snapshot the run found.
C14_SnapshotIsThisRun ==
  outcome.persist = "ok" =>
    /\ snapshot.exists /\ snapshot.lines # <<>> /\ snapshot.lines[1] = HEADER
    /\ SnapshotRows = [k \in DOMAIN Appended |-> Canonical(Appended[k])]
    /\ \A k \in DOMAIN SnapshotRows :
         /\ SnapshotRows[k] \in {LogRow(j) : j \in OkCalls}
         /\ SnapshotRows[k] \notin Range(snapshot0.lines)

\* two rows went to an old-order store while an earlier snapshot was there
C14_Witness ==
  /\ outcome.persist = "ok" /\ Len(Appended) = 2
  /\ _detect_csv_format(store0)[2] = "old"
  /\ snapshot0.exists /\ Len(SnapshotRows) = 2

\* ---- C15

\* a run with the mock that went through: every inbox entry was a candidate of
\* its own, the run was no dry run and ended with exit code 0, Anki held none
\* of its cards, and every note passed canAddNotes
MockRunThrough ==
  /\ pc = "done" /\ exit = 0 /\ ~dry_run
  /\ todo # <<>> /\ Len(todo) = Len(inbox)
  /\ outcome.sync = "ok"
  /\ Len(notes) = Len(new_rows)
  /\ Len(flags) = Len(notes) /\ \A k \in DOMAIN flags : flags[k]

\* C15: with the mocked collaborator a run over an inbox of n distinct lemmas,
\* none of them stored ({"entries":"focus, energy"}: n = 2), appends exactly n
\* rows to the store, leaves a snapshot of the same n rows and makes exactly
\* one addNotes call, of n notes, when all pass the capability check.
C15_EndToEnd ==
  MockRunThrough =>
    /\ Len(Appended) = Len(todo)
    /\ SnapshotRows = [k \in DOMAIN Appended |-> Canonical(Appended[k])]
    /\ Cardinality({k \in DOMAIN sync_calls : sync_calls[k] = "addNotes"}) = 1
    /\ Len(committed) = Len(todo)

\* ---- C16

\* The seven steps as the claim words them: each rule with its condition and
\* its result, a rule applying only when no rule before it does.
StatedCascade(raw) ==
  LET s    == Strip(_normalize_ascii_quotes(raw))
      toks == _tokens(s)
      content == NonStop(toks)
      rule2 == Len(toks) <= 3
      rule3 == ToVerbFrom(s, 1) # <<>>
      rule4 == Len(toks) \in 5 .. 8 /\ content # <<>>
      rule5 == content # <<>>
      rule6 == Len(toks) >= 4 /\ s # <<>> /\ s[Len(s)] \in {".", "!", "?"}
  IN CASE rule2 -> <<_clean_spaces(Join(toks, <<" ">>)), "short-phrase">>
       [] ~rule2 /\ rule3 -> <<Lower(ToVerbFrom(s, 1)), "to-VERB">>
       [] ~rule2 /\ ~rule3 /\ rule4 ->
            <<_clean_spaces(StripFinalPunct(s)), "phrase-extended">>
       [] ~rule2 /\ ~rule3 /\ ~rule4 /\ rule5 ->
            IF \E i \in DOMAIN content : Lower(content[i]) = W_print
            THEN <<W_print, "content-print">>
            ELSE <<Lower(LongestFirst(content)), "content-longest">>
       [] ~rule2 /\ ~rule3 /\ ~rule4 /\ ~rule5 /\ rule6 -> None
       [] OTHER -> <<Lower(Join(SubSeq(toks, 1, 3), <<" ">>)), "fallback-top3">>

\* C16 as stated: for every input extract_lemma returns what the seven steps
\* give, the first rule that matches deciding.
C16_CascadeAsStated ==
  \A k \in DOMAIN calls : calls[k][2] = StatedCascade(calls[k][1])

\* C16: for every input that leaves at least one token extract_lemma returns
\* what the seven steps give, the first rule that matches deciding; for an
\* input that leaves no token it returns None.
C16_Cascade ==
  \A k \in DOMAIN calls :
     calls[k][2] = IF _tokens(Strip(_normalize_ascii_quotes(calls[k][1]))) = <<>>
                   THEN None
                   ELSE StatedCascade(calls[k][1])

\* extract_lemma was given a text of 5 to 8 tokens, one of them no stopword,
\* that holds 'to <word>', and answered with the to-VERB rule; and it was
\* given a text that leaves no token
C16_Witness ==
  /\ \E k \in DOMAIN calls :
       LET toks == _tokens(Strip(_normalize_ascii_quotes(calls[k][1])))
       IN /\ Len(toks) \in 5 .. 8 /\ NonStop(toks) # <<>>
          /\ calls[k][2] # None /\ calls[k][2][2] = "to-VERB"
  /\ \E k \in DOMAIN calls :
       /\ calls[k][1] # <<>>
       /\ _tokens(Strip(_normalize_ascii_quotes(calls[k][1]))) = <<>>

\* ---- C17

Trimmed(s) == s # <<>> /\ ~IsSpace(s[1]) /\ ~IsSpace(s[Len(s)])

\* C17: whenever extract_lemma returns a pair, whatever the rule, the lemma is
\* not empty and neither starts nor ends with white space; so is the lemma of
\* every candidate main keeps for deduplication and enrichment.
C17_LemmaTrimmed ==
  /\ \A k \in DOMAIN calls : calls[k][2] # None => Trimmed(calls[k][2][1])
  /\ \A k \in DOMAIN todo : Trimmed(todo[k][1])

\* a text that starts with a no-break space and ends with a blank and a full
\* stop came back under the phrase-extended rule, and is a candidate
C17_Witness ==
  /\ \E k \in DOMAIN calls :
       /\ calls[k][1] # <<>> /\ IsSpace(calls[k][1][1])
       /\ calls[k][2] # None /\ calls[k][2][2] = "phrase-extended"
  /\ \E k \in DOMAIN todo : todo[k][2] = "phrase-extended"

\* ---- C18

\* a value that is there and is not empty once trimmed
Filled(v) == v # JNull /\ Strip(v) # <<>>

KEYS == <<"word_en", "word_pt", "sentence_pt", "sentence_en">>

\* the first of the four keys whose value is not Filled, 0 when all are
FirstUnfilled(resp) ==
  LET unfilled == {i \in 1 .. 4 : ~Filled(resp[KEYS[i]])}
  IN IF unfilled = {} THEN 0 ELSE CHOOSE i \in unfilled : \A j \in unfilled : i <= j

MissingField(i) ==
  CASE i = 1 -> "Missing required field: word_en"
    [] i = 2 -> "Missing required field: word_pt"
    [] i = 3 -> "Missing required field: sentence_pt"
    [] OTHER -> "Missing required field: sentence_en"

\* C18: ask_llm succeeds only on an object whose four keys are present and not
\* empty after trimming; on any other object it fails with the missing-field
\* error that names the field; so every row appended to the store and written
\* to the snapshot has five fields, none empty, none with white space around.
C18_WellFormed ==
  /\ \A k \in DOMAIN llm_log :
       LET resp == llm_log[k][2]
           res  == ask_llm(resp)
       IN resp.kind = "json" =>
            /\ res[1] <=> FirstUnfilled(resp) = 0
            /\ ~res[1] => res[2] = MissingField(FirstUnfilled(resp))
  /\ outcome.persist = "ok" =>
       \A k \in DOMAIN Appended :
          Len(Appended[k]) = 5 /\ \A i \in 1 .. 5 : Trimmed(Appended[k][i])

\* ---- C19

\* a is b with some of its elements left out, the others in b's order
RECURSIVE IsSubseq(_, _)
IsSubseq(a, b) ==
  IF a = <<>> THEN TRUE
  ELSE IF b = <<>> THEN FALSE
  ELSE IF Head(a) = Head(b) THEN IsSubseq(Tail(a), Tail(b))
  ELSE IsSubseq(a, Tail(b))

\* the place in the inbox of the first entry normalised to the lemma of todo[k]
FirstPlace(k) ==
  LET places == {i \in DOMAIN inbox :
                   LET c == Normalize(<<inbox[i]>>, strict)
                   IN c # <<>> /\ Lower(Strip(c[1][1])) = TodoKey(k)}
  IN CHOOSE i \in places : \A j \in places : i <= j

\* the rows of the successful calls made so far, in the order of the calls
RECURSIVE OkRowsFrom(_)
OkRowsFrom(k) ==
  IF k > Len(llm_log) THEN <<>>
  ELSE (IF LogOk(k) THEN <<LogRow(k)>> ELSE <<>>) \o OkRowsFrom(k + 1)

\* C19: no step reorders the cards.  The candidates accepted are in the order
\* of the first occurrence of their entries in the inbox and are enriched in
\* that order; the rows are in the order of the calls, and those that pass the
\* sentence filter keep it; the rows appended to the store and the rows of the
\* snapshot are these rows in this order; the notes and the addNotes payload
\* are rows among them in the same order.
C19_StableOrder ==
  /\ Prepared =>
       \A k \in DOMAIN todo :
          /\ todo[k][2] = inbox[FirstPlace(k)]
          /\ \A j \in DOMAIN todo : j < k => FirstPlace(j) < FirstPlace(k)
  /\ \A k \in DOMAIN llm_log : k <= Len(todo) /\ llm_log[k][1] = todo[k][1]
  /\ pc = "enrich" => new_rows = OkRowsFrom(1)
  /\ pc = "persist" => new_rows = KeptRows /\ IsSubseq(new_rows, OkRowsFrom(1))
  /\ outcome.persist = "ok" =>
       /\ Appended = [k \in DOMAIN new_rows |-> AsStored(new_rows[k])]
       /\ SnapshotRows = new_rows
       /\ IsSubseq(notes, new_rows)
       /\ IsSubseq(addable, notes)
       /\ committed \in {<<>>, addable}

\* two different entries went through: two rows in the store and two notes in
\* the payload
C19_Witness ==
  /\ pc = "done" /\ Len(inbox) = 2 /\ inbox[1] # inbox[2]
  /\ Len(todo) = 2 /\ Len(Appended) = 2 /\ Len(committed) = 2
  /\ committed[1] # committed[2]

\* ---- C20

\* the stripped lines of the target and of the fragments of dir, the target
\* first, the fragments in ascending order of their names; a line ends at a
\* line feed, as it does for the reader of the queue
StrippedLines(dir) ==
  LET texts == (IF TARGET \in DOMAIN dir THEN <<dir[TARGET]>> ELSE <<>>)
                 \o [k \in 1..Len(SelectSeq(FragNames, LAMBDA n : n \in DOMAIN dir /\ IsFrag(n))) |->
                       dir[SelectSeq(FragNames, LAMBDA n : n \in DOMAIN dir /\ IsFrag(n))[k]]]
      RECURSIVE All(_)
      All(k) ==
        IF k > Len(texts) THEN <<>>
        ELSE [j \in 1..Len(SplitAt(texts[k], {"\n"})) |->
                Strip(SplitAt(texts[k], {"\n"})[j])] \o All(k + 1)
  IN All(1)

\* the non-empty lines of ls, each kept where it occurs first
FirstOccurrences(ls) ==
  LET RECURSIVE Keep(_)
      Keep(k) ==
        IF k > Len(ls) THEN <<>>
        ELSE IF ls[k] # <<>> /\ \A j \in 1..(k - 1) : ls[j] # ls[k]
             THEN <<ls[k]>> \o Keep(k + 1)
             ELSE Keep(k + 1)
  IN Keep(1)

\* C20: after a successful merge the target holds each distinct non-empty
\* stripped line of the earlier target and of every merged fragment exactly
\* once: the target's own lines first in their order, then the new lines of the
\* fragments in ascending order of the file names and in the order within each
\* fragment; no line is lost and none appears twice.
C20_MergeResult ==
  pc = "merged" =>
    SplitAt(inbox_dir[TARGET], {"\n"}) = FirstOccurrences(StrippedLines(calls[1]))

\* ---- C21

\* the name a merged fragment is given
Archived(n) == n \o <<".","2","0","2","6","1","0","3","1","-","1","2","0","0","0","0",".","d","o","n","e">>

\* C21: every fragment a run merged has been renamed with a timestamp and
\* '.done', so that no later merge selects it; the run of the script right
\* after a successful merge finds nothing to merge and leaves the target and
\* every archived fragment as they are.
C21_NeverMergedAgain ==
  [][pc = "merged" =>
       /\ \A n \in DOMAIN calls[1] :
            IsFrag(n) => /\ n \notin DOMAIN inbox_dir
                         /\ Archived(n) \in DOMAIN inbox_dir
                         /\ inbox_dir[Archived(n)] = calls[1][n]
       /\ \A n \in DOMAIN inbox_dir : ~IsFrag(n)
       /\ pc' = "nothing" /\ inbox_dir' = inbox_dir]_vars

\* a second run after a merge of two fragments at least
C21_Witness ==
  /\ pc = "nothing" /\ calls # <<>>
  /\ Cardinality({n \in DOMAIN calls[1] : IsFrag(n)}) >= 2
  /\ TARGET \in DOMAIN calls[1]

\* ---- C22

\* C22: an I/O error during the merge (reading the target or a fragment,
\* writing the target, renaming a fragment) leaves the target holding the
\* content it had, and no captured line is lost: each is still in the target
\* or in a fragment of the directory.
C22_FailureContained ==
  pc = "failed" =>
    /\ (TARGET \in DOMAIN calls[1] => /\ TARGET \in DOMAIN inbox_dir
                                      /\ inbox_dir[TARGET] = calls[1][TARGET])
    /\ Range(FirstOccurrences(StrippedLines(calls[1])))
         \subseteq Range(FirstOccurrences(StrippedLines(inbox_dir)))

\* ---- C23

\* the lines of a file that are JSON objects
Objects(lines) == SelectSeq(lines, LAMBDA l : "t" \notin DOMAIN l)

\* C23: read_quick_entries returns, in file order, the trimmed non-empty
\* pieces of the string payloads of the lines that are JSON objects carrying
\* 'entries', 'word' or one of 'text', 'entry', 'term', 'phrase'; every other
\* line contributes nothing and never keeps the later lines from being read.
C23_BadLinesSkipped ==
  calls # <<>> =>
    /\ pc = "read"
    /\ inbox = read_quick_entries(Objects(calls[1]))

\* ---- C24

BusyErrnos == {"EDEADLK", "EBUSY", "EAGAIN"}

\* C24: _open_with_retry makes at most 8 attempts; it returns the file at the
\* first attempt that does not fail, having slept once for each busy error
\* (EDEADLK, EBUSY, EAGAIN) before it; it raises a fatal error once all 8
\* attempts were busy; an OSError of another kind is raised at once, with no
\* further attempt.
C24_BoundedRetry ==
  LET n == Len(calls)
  IN /\ n <= 8
     /\ \A k \in 1..(n - 1) : calls[k].errno \in BusyErrnos
     /\ \A k \in 1..n : (calls[k].slept > 0) <=> (calls[k].errno \in BusyErrnos)
     /\ (pc = "opened") <=> (n > 0 /\ calls[n].errno = "none")
     /\ (pc = "locked") <=> (n = 8 /\ calls[n].errno \in BusyErrnos)
     /\ (pc = "oserror") <=> (n > 0 /\ calls[n].errno \notin BusyErrnos \cup {"none"})
     /\ (pc = "start") <=> (n < 8 /\ (n > 0 => calls[n].errno \in BusyErrnos))

\* eight busy attempts of all three kinds, then the fatal error
C24_Witness ==
  pc = "locked" /\ {calls[k].errno : k \in 1..Len(calls)} = BusyErrnos

\* ---- C25

\* the calls of gui.refreshAll among the AnkiConnect calls of this run
RefreshCalls == {k \in 1..Len(sync_calls) : sync_calls[k] = "gui.refreshAll"}

\* C25: within a run the refresh call (gui.refreshAll) is made once, after
\* add_notes_to_anki returned a count above 0, and never when the count is 0
\* or the sync failed; a refresh that fails changes nothing: the run exits 0.
C25_RefreshAfterCommit ==
  /\ Cardinality(RefreshCalls) <= 1
  /\ RefreshCalls # {} =>
       /\ outcome.sync = "ok" /\ added > 0
       /\ RefreshCalls = {Len(sync_calls)}
       /\ Len(sync_calls) > 1 /\ sync_calls[Len(sync_calls) - 1] = "addNotes"
       /\ pc = "done" /\ exit = 0
  /\ (pc = "done" /\ outcome.sync = "ok" /\ added > 0) => RefreshCalls # {}

\* a run whose refresh failed after two notes were added
C25_Witness ==
  pc = "done" /\ outcome.refresh = "raised" /\ added = 2 /\ exit = 0

\* ---- C26

\* C26: with --dry-run, on every path through main, total and partial failure
\* of the enrichment included, the store, the snapshot and the usage log are
\* neither created nor changed and no sync call is made, while the entries are
\* still normalised, filtered and enriched.
C26_DryRunNoEffect ==
  dry_run =>
    /\ store = store0 /\ snapshot = snapshot0
    /\ outcome = NoOutcome
    /\ sync_calls = <<>> /\ popen_count = 0
    /\ pc = "done" =>
         /\ todo = ApplyLimit(WordFilter(Normalize(inbox, strict),
                                         load_existing_words(store0)), limit)
         /\ Len(llm_log) = Len(todo)
         /\ Len(new_rows) + Len(failures) <= Len(todo)
         /\ exit = IF todo # <<>> /\ Len(failures) = Len(todo) THEN 1 ELSE 0

\* a dry run in which one item was enriched and one failed, with no snapshot
C26_Witness ==
  /\ dry_run /\ pc = "done" /\ ~snapshot.exists
  /\ Len(new_rows) = 1 /\ Len(failures) = 1

\* ---- C27

\* C27: for every input of more than 3 tokens that holds no 'to VERB' pattern,
\* extract_lemma removes the stopwords and, if any token is left, returns
\* 'print' when it is among them and otherwise the longest token left.
C27_ContentTokenRule ==
  \A k \in DOMAIN calls :
     LET s    == Strip(_normalize_ascii_quotes(calls[k][1]))
         toks == _tokens(s)
         left == NonStop(toks)
     IN (Len(toks) > 3 /\ ToVerbFrom(s, 1) = <<>> /\ left # <<>>) =>
          /\ calls[k][2] # None
          /\ IF \E i \in DOMAIN left : Lower(left[i]) = W_print
             THEN calls[k][2][1] = W_print
             ELSE \E i \in DOMAIN left :
                    /\ \A j \in DOMAIN left : Len(left[j]) <= Len(left[i])
                    /\ calls[k][2][1] = Lower(left[i])

\* ---- C28

\* the sentence keys of the rows of a store as load_existing_sentence_pairs
\* reads them, by line number
KeyAt(f, i) ==
  LET cols == IF _detect_csv_format(f)[2] = "new" THEN <<1, 3, 4>> ELSE <<3, 4, 5>>
  IN _sentence_duplicate_key(f.lines[i][cols[1]], f.lines[i][cols[2]], f.lines[i][cols[3]])

KeyedRows(f) ==
  IF IsEmptyFile(f) THEN {}
  ELSE {k \in DataRowIdx(f, _detect_csv_format(f)[1]) : Len(f.lines[k]) >= 5}

HasDuplicateKeys(f) ==
  \E i, j \in KeyedRows(f) : i < j /\ KeyAt(f, i) = KeyAt(f, j)

\* C28, the serialized half: when the caller starts the second run of main
\* after the first has exited, the store never holds two rows with the same
\* sentence key.
C28_SerializedIsSafe ==
  (other # <<>> /\ other.serial) => ~HasDuplicateKeys(store)

\* C28, the interleaved half: both runs loaded the store before either
\* appended, both passed the two filters with the same card, the store holds
\* two rows with its key and both runs sent it to addNotes.
C28_Witness ==
  /\ other # <<>> /\ ~other.serial
  /\ pc = "done" /\ other.locals.pc = "done"
  /\ HasDuplicateKeys(store)
  /\ committed # <<>> /\ committed = other.locals.committed
  /\ new_rows = other.locals.new_rows

\* ---- C29

\* the lines of the store the run before this one appended
PrevAppended == (Len(store0.lines) - prev.appended + 1) .. Len(store0.lines)

\* C29: when a run persisted its cards and then exited 1 because the sync
\* failed, a replay of the whole run with the same inbox, the same enrichment
\* results and a sync service that answers hands the cards the failed run
\* persisted to the sync service.
C29_ReplayCompletesSync ==
  ( /\ run = 2 /\ pc = "done"
    /\ prev.exit = 1 /\ prev.persist = "ok" /\ prev.appended > 0
    /\ \A k \in DOMAIN llm_log : llm_log[k] \in Range(prev.llm_log)
    /\ outcome.sync # "raised" /\ outcome.persist \in {"none", "ok"} )
  => \A i \in PrevAppended :
       \E k \in DOMAIN new_rows :
         _sentence_duplicate_key(new_rows[k][1], new_rows[k][3], new_rows[k][4])
           = KeyAt(store0, i)

\* ---- C30

\* the rows of the store that hold a card: neither blank nor a header
CardRows == {i \in DOMAIN store.lines : store.lines[i] \notin {<<>>, HEADER, LEGACY_HEADER}}

\* the sentence key of the card in row i of the store, each field taken from
\* the column it was written in: a row of store0 lies in the order of store0,
\* a row this run appended in the order append_rows chose
CardKeyAt(i) ==
  LET order == IF i <= Len(store0.lines) THEN TrueOrder(store0)
               ELSE _detect_csv_format(store0)[2]
      cols  == IF order = "new" THEN <<1, 3, 4>> ELSE <<3, 4, 5>>
      row   == store.lines[i]
  IN _sentence_duplicate_key(row[cols[1]], row[cols[2]], row[cols[3]])

\* the rows store0 held are still there, unchanged and in place
PreExistingKept ==
  store0.exists =>
    /\ store.exists /\ Len(store.lines) >= Len(store0.lines)
    /\ SubSeq(store.lines, 1, Len(store0.lines)) = store0.lines

\* C30: starting from a store in the current or the legacy format in which no
\* two rows share a sentence key, after a run of the pipeline with any inbox,
\* any enrichment results and any failures the store holds no two rows with
\* the same sentence key, and no row that was there has been modified or
\* removed.
C30_StoreWideUnique ==
  /\ \A i, j \in CardRows : CardKeyAt(i) = CardKeyAt(j) => i = j
  /\ PreExistingKept

====
